---- MODULE Spec2Model ----
(***************************************************************************)
(* Authentication and role-based authorization layer of the ERP backend    *)
(* (backend/app/core/security.py, routers/auth.py, routers/admin.py).      *)
(*                                                                         *)
(* Every request is served by a coroutine; coroutines of concurrent        *)
(* requests (and of several worker processes) interleave at their          *)
(* database statements, each of which is one autocommit statement          *)
(* (db/pool.py).  A request is therefore modelled as a sequence of steps,  *)
(* one per database statement, the local computation around a statement    *)
(* belonging to its step.                                                  *)
(***************************************************************************)
EXTENDS Integers, Sequences, FiniteSets, TLC

VARIABLES
    staff_credentials,  \* table staff_credentials: row i has id i
    staff_users,        \* table staff_users: row i has id i
    now,                \* wall clock, in minutes
    JWT_SECRET,         \* settings.JWT_SECRET of the running process
    pc,                 \* per client: position of its request
    op,                 \* per client: the operation requested
    tok,                \* per client: the bearer credential presented
    arg,                \* per client: the request's parameters
    user,               \* per client: the row held in the local `user`
    resp,               \* per client: the response of the request
    loc,                \* per client: the other locals of the handler
    held,               \* per client: the token the client keeps from login
    cfgRoles,           \* guard configuration: the list given to require_roles
    guard,              \* guard configuration: what require_roles produced
    cfgUser,            \* guard configuration: account handed to the guard
    cfgOut,             \* guard configuration: what the guard answered
    issue_in,           \* token round trip: the subject id and role to issue for
    issued,             \* token round trip: the token issued
    verified,           \* token round trip: what its verification returned
    pw_in,              \* password hashing: the password, the extension, the salt
    pw_out,             \* password hashing: the digests and verdicts computed
    reads,              \* per client: lookups get_current_user made for its request
    pool,               \* db.pool.pool: None, or the pool init_pool opened
    borrowed,           \* connection pool: the calls that hold a connection
    waiting,            \* connection pool: the calls queued for a connection
    fetched             \* connection pool: how the last call to end has ended

storeVars == <<staff_credentials, staff_users>>
reqVars == <<pc, op, tok, arg, user, resp, loc, held>>
cfgVars == <<cfgRoles, guard, cfgUser, cfgOut, issue_in, issued, verified, pw_in, pw_out>>
poolVars == <<pool, borrowed, waiting, fetched>>
vars == <<staff_credentials, staff_users, now, JWT_SECRET,
          pc, op, tok, arg, user, resp, loc, held,
          cfgRoles, guard, cfgUser, cfgOut, issue_in, issued, verified, pw_in, pw_out,
          reads, pool, borrowed, waiting, fetched>>

(***************************************************************************)
(* Bounds of the model.                                                    *)
(***************************************************************************)
MaxRows == 2          \* rows a table may hold
MaxNow == 60          \* the clock stops advancing at or after this minute
TickMinutes == 60     \* minutes one clock step advances
MaxGuardRoles == 2    \* length of a role list handed to require_roles
MaxSubject == 120     \* largest credential id a token is issued for
MaxClock == 125       \* last minute of the clock while tokens age
IssueUntil == 1       \* last minute at which a token is issued while tokens age
MaxOver == 1          \* characters by which a password misses or exceeds 72
MaxCalls == 12        \* calls of fetch_one under way at once
MaxStaffRows == 3     \* rows a table may hold while the staff is managed concurrently

Clients == {"c1", "c2"}
Usernames == {"alice", "bob"}
Secrets == {"k1", "k2"}

(***************************************************************************)
(* Program constants.                                                      *)
(***************************************************************************)
ACCESS_TOKEN_EXPIRE_MINUTES == 60

ALLOWED_ROLES ==
    {"admin", "sales", "project", "project_manager", "designer", "printing",
     "logistics", "accounts", "hr", "staff", "crm"}

\* The roles the administrator gives to staff in this model.
RoleInputs == {"sales", "accounts"}

\* The list each route hands to require_roles.
RouteRoles ==
    [create_staff |-> <<"admin">>,
     delete_staff |-> <<"admin">>,
     update_staff |-> <<"admin">>,
     create_daily_sales_report |-> <<"accounts">>,
     create_customer |-> <<"crm", "sales">>]

ProtectedOps == DOMAIN RouteRoles
StaffOps == {"create_staff", "delete_staff", "update_staff"}
BusinessOps == ProtectedOps \ StaffOps

(***************************************************************************)
(* str(int) and int(str) over the characters a subject is built from.      *)
(***************************************************************************)
DigitChars == <<"0", "1", "2", "3", "4", "5", "6", "7", "8", "9">>

IsDigit(ch) == \E i \in 1..10 : DigitChars[i] = ch

DigitValue(ch) == (CHOOSE i \in 1..10 : DigitChars[i] = ch) - 1

RECURSIVE str(_)
str(n) ==
    IF n < 0 THEN <<"-">> \o str(-n)
    ELSE IF n < 10 THEN <<DigitChars[n + 1]>>
    ELSE str(n \div 10) \o <<DigitChars[(n % 10) + 1]>>

RECURSIVE DigitsValue(_)
DigitsValue(s) ==
    IF s = <<>> THEN 0
    ELSE 10 * DigitsValue(SubSeq(s, 1, Len(s) - 1)) + DigitValue(s[Len(s)])

HasSign(s) == Len(s) > 0 /\ s[1] \in {"-", "+"}

Unsigned(s) == IF HasSign(s) THEN Tail(s) ELSE s

\* int(s) raises ValueError unless s is an optionally signed run of digits.
IsIntLiteral(s) ==
    /\ Len(Unsigned(s)) > 0
    /\ \A i \in 1..Len(Unsigned(s)) : IsDigit(Unsigned(s)[i])

int(s) ==
    IF HasSign(s) /\ s[1] = "-" THEN 0 - DigitsValue(Unsigned(s))
    ELSE DigitsValue(Unsigned(s))

(***************************************************************************)
(* Python values.  An Optional parameter is a sequence of length 0 (None)  *)
(* or 1; a dict is a record, dict.get(k) being None for k outside DOMAIN.  *)
(***************************************************************************)
None == <<>>

Range(s) == {s[i] : i \in 1..Len(s)}

Some(v) == <<v>>

Has(d, k) == k \in DOMAIN d

\* `not d.get(k)`: the key is missing, or its value is empty
Falsy(d, k) == ~Has(d, k) \/ d[k] = <<>>

\* the same for a value that is a string of the model
FalsyStr(d, k) == ~Has(d, k) \/ d[k] = ""

(***************************************************************************)
(* Passwords are sequences of characters; "E" stands for a character       *)
(* whose UTF-8 encoding takes two bytes, every other one takes one.        *)
(***************************************************************************)
BCRYPT_MAX == 72

utf8(ch) == IF ch = "E" THEN <<"C3", "A9">> ELSE <<ch>>

RECURSIVE encode(_)
encode(s) == IF s = <<>> THEN <<>> ELSE utf8(Head(s)) \o encode(Tail(s))

\* s[:n]
Slice(s, n) == SubSeq(s, 1, IF Len(s) < n THEN Len(s) ELSE n)

Salts == {"s1"}

\* the character U+0000
NUL == "NUL"

\* variant of the primitive that reads every byte of the secret
bcrypt_whole_secret(secret, salt) ==
    [scheme |-> "2b", salt |-> salt, checksum |-> <<salt, encode(secret)>>]

\* the bcrypt primitive: it reads the first 72 bytes of the secret
bcrypt(secret, salt) ==
    [scheme |-> "2b", salt |-> salt,
     checksum |-> <<salt, Slice(encode(secret), BCRYPT_MAX)>>]

\* a password_hash column that is NULL
NoDigest == [none |-> TRUE]

\* stored values that are no bcrypt digest: a string of no known scheme, and
\* a string with the bcrypt prefix cut short of its checksum
MalformedDigests == {[scheme |-> "unknown"], [scheme |-> "2b", salt |-> "s1"]}

\* pwd_context.hash: passlib's bcrypt handler refuses a secret holding NUL
pwd_context_hash(secret, salt) ==
    IF \E i \in 1..Len(secret) : secret[i] = NUL THEN [error |-> "PasswordValueError"]
    ELSE bcrypt(secret, salt)

\* pwd_context.verify: False for None, UnknownHashError for a hash of no
\* scheme of the context, then the handler parses the hash and hashes the
\* secret with its salt
pwd_context_verify(secret, hash) ==
    IF Has(hash, "none") THEN [ok |-> TRUE, value |-> FALSE]
    ELSE IF hash.scheme # "2b" THEN [ok |-> FALSE, error |-> "UnknownHashError"]
    ELSE IF ~Has(hash, "checksum") THEN [ok |-> FALSE, error |-> "MalformedHashError"]
    ELSE IF \E i \in 1..Len(secret) : secret[i] = NUL
        THEN [ok |-> FALSE, error |-> "PasswordValueError"]
    ELSE [ok |-> TRUE, value |-> (hash = bcrypt(secret, hash.salt))]

\* a digest, or [error |-> ...] where pwd_context.hash raises
hash_password(password, salt) == pwd_context_hash(Slice(password, 72), salt)

\* [ok |-> TRUE, value |-> the bool returned], or [ok |-> FALSE, error |-> ...]
\* where pwd_context.verify raises
verify_password(plain_password, hashed_password) ==
    pwd_context_verify(Slice(plain_password, 72), hashed_password)

(***************************************************************************)
(* Tokens.  A bearer credential is absent, a string that is no JWS, or a   *)
(* JWS: a payload signed with a key.                                       *)
(***************************************************************************)
NoCredentials == [kind |-> "none"]

Garbage == [kind |-> "garbage"]

jwt_encode(payload, key) == [kind |-> "jws", key |-> key, payload |-> payload]

\* variant of jwt.decode with verify_signature off
jwt_decode_unverified(token, key, t) ==
    IF token.kind # "jws" THEN [ok |-> FALSE, error |-> "DecodeError"]
    ELSE IF Has(token.payload, "iat") /\ token.payload.iat > t
        THEN [ok |-> FALSE, error |-> "ImmatureSignatureError"]
    ELSE IF Has(token.payload, "exp") /\ token.payload.exp <= t
        THEN [ok |-> FALSE, error |-> "ExpiredSignatureError"]
    ELSE [ok |-> TRUE, payload |-> token.payload]

\* variant of jwt.decode with verify_exp off
jwt_decode_no_expiry(token, key, t) ==
    IF token.kind # "jws" THEN [ok |-> FALSE, error |-> "DecodeError"]
    ELSE IF token.key # key THEN [ok |-> FALSE, error |-> "InvalidSignatureError"]
    ELSE IF Has(token.payload, "iat") /\ token.payload.iat > t
        THEN [ok |-> FALSE, error |-> "ImmatureSignatureError"]
    ELSE [ok |-> TRUE, payload |-> token.payload]

\* jwt.decode: the parse, then the signature, then the registered claims,
\* iat before exp; a token is expired from the instant exp on
jwt_decode(token, key, t) ==
    IF token.kind # "jws" THEN [ok |-> FALSE, error |-> "DecodeError"]
    ELSE IF token.key # key THEN [ok |-> FALSE, error |-> "InvalidSignatureError"]
    ELSE IF Has(token.payload, "iat") /\ token.payload.iat > t
        THEN [ok |-> FALSE, error |-> "ImmatureSignatureError"]
    ELSE IF Has(token.payload, "exp") /\ token.payload.exp <= t
        THEN [ok |-> FALSE, error |-> "ExpiredSignatureError"]
    ELSE [ok |-> TRUE, payload |-> token.payload]

\* variant timedelta(hours=ACCESS_TOKEN_EXPIRE_MINUTES)
access_token_expires_hours == ACCESS_TOKEN_EXPIRE_MINUTES * 60

access_token_expires == ACCESS_TOKEN_EXPIRE_MINUTES

\* variant without the default lifetime: no expires_delta, no lifetime
create_access_token_no_default(subject, expires_delta, secret, t) ==
    LET expire == t + (IF expires_delta # None THEN expires_delta[1] ELSE 0)
        to_encode == [k \in DOMAIN subject \cup {"exp", "iat"} |->
                        IF k = "exp" THEN expire
                        ELSE IF k = "iat" THEN t ELSE subject[k]]
    IN  jwt_encode(to_encode, secret)

create_access_token(subject, expires_delta, secret, t) ==
    LET expire == t + (IF expires_delta # None /\ expires_delta[1] # 0
                       THEN expires_delta[1] ELSE access_token_expires)
        to_encode == [k \in DOMAIN subject \cup {"exp", "iat"} |->
                        IF k = "exp" THEN expire
                        ELSE IF k = "iat" THEN t ELSE subject[k]]
    IN  jwt_encode(to_encode, secret)

(***************************************************************************)
(* The credential store.                                                   *)
(***************************************************************************)
WithId(table, i) == [k \in DOMAIN table[i] \cup {"id"} |->
                        IF k = "id" THEN i ELSE table[i][k]]

\* select ... where id = %s
ById(table, id) == {WithId(table, i) : i \in {j \in 1..Len(table) : j = id}}

\* select ... where username = %s
ByUsername(table, username) ==
    {WithId(table, i) : i \in {j \in 1..Len(table) : table[j].username = username}}

\* the columns get_current_user selects
UserColumns(row) ==
    [id |-> row.id, username |-> row.username, role |-> row.role, status |-> row.status]

NoUser == [none |-> TRUE]

(***************************************************************************)
(* Responses.                                                              *)
(***************************************************************************)
NoResp == [status |-> 0]

HTTPException(status_code, detail) == [status |-> status_code, detail |-> detail]

\* an exception no handler catches
InternalServerError == [status |-> 500, detail |-> "Internal Server Error"]

(***************************************************************************)
(* get_current_user, lines 44-54: the bearer credential and the token.     *)
(***************************************************************************)
\* variant that verifies the token with the key the token itself names
check_token_own_key(credentials, secret, t) ==
    IF credentials.kind = "none"
        THEN [ok |-> FALSE, resp |-> HTTPException(401, "Not authenticated")]
    ELSE IF credentials.kind # "jws" \/ ~jwt_decode(credentials, credentials.key, t).ok
        THEN [ok |-> FALSE, resp |-> HTTPException(401, "Could not validate credentials")]
    ELSE IF Falsy(credentials.payload, "sub")
        THEN [ok |-> FALSE, resp |-> HTTPException(401, "Invalid token")]
    ELSE [ok |-> TRUE, payload |-> credentials.payload, user_id |-> credentials.payload.sub]

\* variant with HTTPBearer(auto_error=True): a missing header is answered 403
check_token_auto_error(credentials, secret, t) ==
    IF credentials.kind = "none"
        THEN [ok |-> FALSE, resp |-> HTTPException(403, "Not authenticated")]
    ELSE IF ~jwt_decode(credentials, secret, t).ok
        THEN [ok |-> FALSE, resp |-> HTTPException(401, "Could not validate credentials")]
    ELSE IF Falsy(jwt_decode(credentials, secret, t).payload, "sub")
        THEN [ok |-> FALSE, resp |-> HTTPException(401, "Invalid token")]
    ELSE [ok |-> TRUE, payload |-> jwt_decode(credentials, secret, t).payload,
          user_id |-> jwt_decode(credentials, secret, t).payload.sub]

check_token(credentials, secret, t) ==
    IF credentials.kind = "none"
        THEN [ok |-> FALSE, resp |-> HTTPException(401, "Not authenticated")]
    ELSE IF ~jwt_decode(credentials, secret, t).ok
        THEN [ok |-> FALSE, resp |-> HTTPException(401, "Could not validate credentials")]
    ELSE IF Falsy(jwt_decode(credentials, secret, t).payload, "sub")
        THEN [ok |-> FALSE, resp |-> HTTPException(401, "Invalid token")]
    ELSE [ok |-> TRUE, payload |-> jwt_decode(credentials, secret, t).payload,
          user_id |-> jwt_decode(credentials, secret, t).payload.sub]

(***************************************************************************)
(* get_current_user, lines 56-66: the lookup of the account.               *)
(***************************************************************************)
\* variant `not user`: the status is not looked at
rejects_user_missing_only(rows) == rows = {}

\* `not user or user["status"] != "active"`
rejects_user(rows) == rows = {} \/ \A r \in rows : r.status # "active"

\* variant that rejects a missing row alone
resolve_user_any_status(table, payload) ==
    IF ~IsIntLiteral(payload.sub) THEN [ok |-> FALSE, resp |-> InternalServerError]
    ELSE IF ById(table, int(payload.sub)) = {}
        THEN [ok |-> FALSE, resp |-> HTTPException(401, "Inactive or missing user")]
    ELSE [ok |-> TRUE,
          user |-> UserColumns(CHOOSE r \in ById(table, int(payload.sub)) : TRUE)]

\* variant that trusts the token's "role" where it carries one
resolve_user_token_role(table, payload) ==
    IF ~IsIntLiteral(payload.sub) THEN [ok |-> FALSE, resp |-> InternalServerError]
    ELSE IF ById(table, int(payload.sub)) = {}
            \/ \A r \in ById(table, int(payload.sub)) : r.status # "active"
        THEN [ok |-> FALSE, resp |-> HTTPException(401, "Inactive or missing user")]
    ELSE LET row == UserColumns(CHOOSE r \in ById(table, int(payload.sub)) : TRUE)
         IN  [ok |-> TRUE,
              user |-> IF Has(payload, "role")
                       THEN [row EXCEPT !.role = payload.role] ELSE row]

\* variant that looks the row up a second time
lookups_twice(payload) == IF IsIntLiteral(payload.sub) THEN 2 ELSE 0

\* the calls of fetch_one get_current_user makes: one, unless int(user_id),
\* evaluated for the call's parameters, raises first
lookups(payload) == IF IsIntLiteral(payload.sub) THEN 1 ELSE 0

\* payload is the decoded token, of which the code reads "sub" alone
resolve_user(table, payload) ==
    IF ~IsIntLiteral(payload.sub) THEN [ok |-> FALSE, resp |-> InternalServerError]
    ELSE IF rejects_user(ById(table, int(payload.sub)))
        THEN [ok |-> FALSE, resp |-> HTTPException(401, "Inactive or missing user")]
    ELSE [ok |-> TRUE,
          user |-> UserColumns(CHOOSE r \in ById(table, int(payload.sub)) : TRUE)]

(***************************************************************************)
(* require_roles: the validation at configuration time, and the            *)
(* dependency _dep it returns, evaluated per request.                      *)
(***************************************************************************)
ValueError == [error |-> "ValueError"]

\* variant without the validation against ALLOWED_ROLES
require_roles_unchecked(roles) == [roles |-> roles]

require_roles(roles) ==
    IF \E i \in 1..Len(roles) : roles[i] \notin ALLOWED_ROLES THEN ValueError
    ELSE [roles |-> roles]

\* variant in which an admin passes every guard
dep_admin_passes(roles, account) ==
    IF account.role \notin Range(roles) /\ account.role # "admin"
        THEN [ok |-> FALSE, resp |-> HTTPException(403, "Insufficient role")]
    ELSE [ok |-> TRUE, user |-> account]

dep(roles, account) ==
    IF account.role \notin Range(roles)
        THEN [ok |-> FALSE, resp |-> HTTPException(403, "Insufficient role")]
    ELSE [ok |-> TRUE, user |-> account]

(***************************************************************************)
(* The requests clients send.                                              *)
(***************************************************************************)
PW1 == <<"p", "w", "1">>

PW2 == <<"p", "w", "2">>

FarFuture == MaxNow + (2 * ACCESS_TOKEN_EXPIRE_MINUTES)

\* Tokens a client can present besides the one it obtained from login: one
\* signed with another key, and JWS signed with the key of the process whose
\* subject is missing, empty, no number, or the id of no row.
CraftedTokens ==
    {jwt_encode([sub |-> str(1), role |-> "admin", exp |-> FarFuture], "k2"),
     jwt_encode([role |-> "admin", exp |-> FarFuture], "k1"),
     jwt_encode([sub |-> <<>>, role |-> "admin", exp |-> FarFuture], "k1"),
     jwt_encode([sub |-> <<"x">>, role |-> "admin", exp |-> FarFuture], "k1"),
     jwt_encode([sub |-> str(MaxRows + 7), role |-> "admin", exp |-> FarFuture], "k1")}

\* The workload: client c1 is the administrator's, who registers first, logs
\* in and manages the staff; client c2 is a staff member's or an outsider's,
\* who logs in and calls business and staff operations with any token.
Presentable(c) ==
    IF c = "c1" THEN held[c]
    ELSE {NoCredentials, Garbage} \cup CraftedTokens \cup held[c]

OpenOpsOf(c) == IF c = "c1" THEN {"signup", "login"} ELSE {"login"}

ProtectedOpsOf(c) ==
    IF c = "c1" THEN StaffOps ELSE BusinessOps \cup {"delete_staff"}

StatusInputs == {"active", "inactive"}

SignupPayloads ==
    {[username |-> "alice", password |-> PW1, staff_id |-> 1],
     [password |-> PW1, staff_id |-> 1]}

LoginPayloads ==
    {[username |-> u, password |-> p] : u \in Usernames, p \in {PW1, PW2}}
    \cup {[username |-> "alice"]}

CreateStaffArgs ==
    {[staff_name |-> "n1", role |-> r, status |-> "active", username |-> u, password |-> PW1] :
        r \in RoleInputs, u \in Usernames}

UpdateStaffArgs ==
    {[cred_id |-> i] : i \in 1..MaxRows}
    \cup {[cred_id |-> i, role |-> r] : i \in 1..MaxRows, r \in RoleInputs}
    \cup {[cred_id |-> i, status |-> st] : i \in 1..MaxRows, st \in StatusInputs}
    \cup {[cred_id |-> i, username |-> "bob"] : i \in 1..MaxRows}

DeleteStaffArgs == {[cred_id |-> i] : i \in 1..MaxRows}

NoArgs == [none |-> TRUE]

Args(o) ==
    CASE o = "signup" -> SignupPayloads
      [] o = "login" -> LoginPayloads
      [] o = "create_staff" -> CreateStaffArgs
      [] o = "update_staff" -> UpdateStaffArgs
      [] o = "delete_staff" -> DeleteStaffArgs
      [] OTHER -> {NoArgs}

\* Requests under way that will still insert a row into the table.
Inserting(ops) == Cardinality({c \in Clients : pc[c] # "idle" /\ pc[c] # "Responded"
                                                /\ op[c] \in ops})

\* an empty database
NoRows ==
    /\ staff_credentials = <<>>
    /\ staff_users = <<>>

\* no request under way, no token handed out
NoRequests ==
    /\ pc = [c \in Clients |-> "idle"]
    /\ op = [c \in Clients |-> "none"]
    /\ tok = [c \in Clients |-> NoCredentials]
    /\ arg = [c \in Clients |-> NoArgs]
    /\ user = [c \in Clients |-> NoUser]
    /\ resp = [c \in Clients |-> NoResp]
    /\ loc = [c \in Clients |-> NoArgs]
    /\ held = [c \in Clients |-> {}]
    /\ reads = [c \in Clients |-> 0]

\* the pool as the start of the application leaves it: open, nothing borrowed
OpenPool ==
    /\ pool = "open"
    /\ borrowed = {}
    /\ waiting = <<>>
    /\ fetched = NoResp

Init ==
    /\ NoRows
    /\ now = 0
    /\ JWT_SECRET = "k1"
    /\ NoRequests
    /\ OpenPool
    /\ cfgRoles = <<>>
    /\ guard = NoArgs
    /\ cfgUser = NoUser
    /\ cfgOut = NoResp
    /\ issue_in = NoArgs
    /\ issued = NoCredentials
    /\ verified = NoResp
    /\ pw_in = NoArgs
    /\ pw_out = NoResp

Respond(c, r) ==
    /\ pc' = [pc EXCEPT ![c] = "Responded"]
    /\ resp' = [resp EXCEPT ![c] = r]

Goto(c, label) == pc' = [pc EXCEPT ![c] = label]

\* A client sends a request to an operation that needs no token.
SendOpen(c) ==
    /\ pc[c] = "idle"
    /\ \E o \in OpenOpsOf(c) : \E a \in Args(o) :
        /\ o = "signup" => Len(staff_credentials) + Inserting({"signup", "create_staff"}) < MaxRows
        /\ op' = [op EXCEPT ![c] = o]
        /\ arg' = [arg EXCEPT ![c] = a]
        /\ Goto(c, o)
    /\ UNCHANGED <<storeVars, now, JWT_SECRET, tok, user, resp, loc, held, cfgVars, reads, poolVars>>

\* A client sends a request to a protected operation, with or without a token.
\* The route and the parameters of the request are bound where the code first
\* reads them: the route by the guard, the parameters by the handler.
SendProtected(c) ==
    /\ pc[c] = "idle"
    /\ \E t \in Presentable(c) : tok' = [tok EXCEPT ![c] = t]
    /\ op' = [op EXCEPT ![c] = "protected"]
    /\ Goto(c, "Unauthenticated")
    /\ UNCHANGED <<storeVars, now, JWT_SECRET, arg, user, resp, loc, held, cfgVars, reads, poolVars>>

\* The client reads the response; it keeps the token a login returned.
Deliver(c) ==
    /\ pc[c] = "Responded"
    /\ held' = [held EXCEPT ![c] =
                    IF Has(resp[c], "access_token") THEN {resp[c].access_token} ELSE @]
    /\ pc' = [pc EXCEPT ![c] = "idle"]
    /\ op' = [op EXCEPT ![c] = "none"]
    /\ tok' = [tok EXCEPT ![c] = NoCredentials]
    /\ arg' = [arg EXCEPT ![c] = NoArgs]
    /\ user' = [user EXCEPT ![c] = NoUser]
    /\ resp' = [resp EXCEPT ![c] = NoResp]
    /\ loc' = [loc EXCEPT ![c] = NoArgs]
    /\ reads' = [reads EXCEPT ![c] = 0]
    /\ UNCHANGED <<storeVars, now, JWT_SECRET, cfgVars, poolVars>>

Tick ==
    /\ now < MaxNow
    /\ now' = now + TickMinutes
    /\ UNCHANGED <<storeVars, JWT_SECRET, reqVars, cfgVars, reads, poolVars>>

(***************************************************************************)
(* The chain every protected request runs: get_current_user, then _dep,    *)
(* then the handler.                                                       *)
(***************************************************************************)
Guards == [o \in ProtectedOps |-> require_roles(RouteRoles[o])]

\* get_current_user up to the lookup
VerifyToken(c) ==
    /\ pc[c] = "Unauthenticated"
    /\ LET r == check_token(tok[c], JWT_SECRET, now)
       IN  IF r.ok
           THEN /\ Goto(c, "TokenValidated")
                /\ loc' = [loc EXCEPT ![c] = [payload |-> r.payload]]
                /\ UNCHANGED resp
           ELSE /\ Respond(c, r.resp)
                /\ UNCHANGED loc
    /\ UNCHANGED <<storeVars, now, JWT_SECRET, op, tok, arg, user, held, cfgVars, reads, poolVars>>

\* get_current_user from the lookup on
ResolveIdentity(c) ==
    /\ pc[c] = "TokenValidated"
    /\ LET r == resolve_user(staff_credentials, loc[c].payload)
       IN  IF r.ok
           THEN /\ Goto(c, "IdentityResolved")
                /\ user' = [user EXCEPT ![c] = r.user]
                /\ UNCHANGED resp
           ELSE /\ Respond(c, r.resp)
                /\ UNCHANGED user
    /\ reads' = [reads EXCEPT ![c] = @ + lookups(loc[c].payload)]
    /\ UNCHANGED <<storeVars, now, JWT_SECRET, op, tok, arg, loc, held, cfgVars, poolVars>>

\* _dep of the guard of the route
CheckRole(c) ==
    /\ pc[c] = "IdentityResolved"
    /\ \E o \in ProtectedOpsOf(c) :
        /\ o = "create_staff" => Len(staff_credentials) + Inserting({"signup", "create_staff"}) < MaxRows
        /\ op' = [op EXCEPT ![c] = o]
        /\ LET r == dep(Guards[o].roles, user[c])
           IN  IF r.ok
               THEN /\ Goto(c, "RoleChecked")
                    /\ user' = [user EXCEPT ![c] = r.user]
                    /\ UNCHANGED resp
               ELSE /\ Respond(c, r.resp)
                    /\ UNCHANGED user
    /\ UNCHANGED <<storeVars, now, JWT_SECRET, tok, arg, loc, held, cfgVars, reads, poolVars>>

\* the handler is called with current_user = user[c]
EnterHandler(c) ==
    /\ pc[c] = "RoleChecked"
    /\ \E a \in Args(op[c]) : arg' = [arg EXCEPT ![c] = a]
    /\ Goto(c, "Authorized")
    /\ loc' = [loc EXCEPT ![c] = NoArgs]
    /\ UNCHANGED <<storeVars, now, JWT_SECRET, op, tok, user, resp, held, cfgVars, reads, poolVars>>

\* A business handler: it stamps what it writes with the account's id.
business_handler(account) ==
    IF account.id = 0 THEN HTTPException(500, "Error")
    ELSE [status |-> 200, created_by |-> account.id, account |-> account]

RunBusiness(c) ==
    /\ pc[c] = "Authorized"
    /\ op[c] \in BusinessOps
    /\ Respond(c, business_handler(user[c]))
    /\ UNCHANGED <<storeVars, now, JWT_SECRET, op, tok, arg, user, loc, held, cfgVars, reads, poolVars>>

(***************************************************************************)
(* Statements.                                                             *)
(***************************************************************************)
\* fetch_one: None, or a row of the result (its first, in no stated order)
FetchOne(rows) == IF rows = {} THEN {None} ELSE {Some(r) : r \in rows}

\* UPDATE table SET updates WHERE id = id
Update(table, id, updates) ==
    [i \in 1..Len(table) |->
        IF i = id
        THEN [k \in DOMAIN table[i] |-> IF Has(updates, k) THEN updates[k] ELSE table[i][k]]
        ELSE table[i]]

Restrict(d, keys) == [k \in DOMAIN d \cap keys |-> d[k]]

UserPublic(row, full_name) ==
    [status |-> 200, id |-> row.id, username |-> row.username, role |-> row.role,
     full_name |-> full_name, is_active |-> (row.status = "active")]

(***************************************************************************)
(* POST /auth/login                                                        *)
(***************************************************************************)
\* variant that measures the password in characters
login_validate_chars(payload) ==
    IF FalsyStr(payload, "username") \/ Falsy(payload, "password")
        THEN Some(HTTPException(400, "username and password are required"))
    ELSE IF Len(payload.password) > 72
        THEN Some(HTTPException(400, "Password cannot exceed 72 bytes"))
    ELSE None

\* lines 80-87: the checks made on the payload alone
login_validate(payload) ==
    IF FalsyStr(payload, "username") \/ Falsy(payload, "password")
        THEN Some(HTTPException(400, "username and password are required"))
    ELSE IF Len(encode(payload.password)) > 72
        THEN Some(HTTPException(400, "Password cannot exceed 72 bytes"))
    ELSE None

\* variant without the test of the status
login_any_status(payload, found, secret, t) ==
    IF login_validate(payload) # None THEN login_validate(payload)[1]
    ELSE IF found = None THEN HTTPException(401, "Invalid username or password")
    ELSE IF ~verify_password(Slice(payload.password, 72), found[1].password_hash).ok
        THEN InternalServerError
    ELSE IF ~verify_password(Slice(payload.password, 72), found[1].password_hash).value
        THEN HTTPException(401, "Invalid username or password")
    ELSE [status |-> 200,
          access_token |-> create_access_token(
              [sub |-> str(found[1].id), role |-> found[1].role], None, secret, t),
          token_type |-> "bearer"]

\* found is the row fetch_one returned for the username, or None
login(payload, found, secret, t) ==
    IF login_validate(payload) # None THEN login_validate(payload)[1]
    ELSE IF found = None THEN HTTPException(401, "Invalid username or password")
    ELSE IF ~verify_password(Slice(payload.password, 72), found[1].password_hash).ok
        THEN InternalServerError
    ELSE IF ~verify_password(Slice(payload.password, 72), found[1].password_hash).value
        THEN HTTPException(401, "Invalid username or password")
    ELSE IF found[1].status # "active"
        THEN HTTPException(403, "User account is disabled")
    ELSE [status |-> 200,
          access_token |-> create_access_token(
              [sub |-> str(found[1].id), role |-> found[1].role], None, secret, t),
          token_type |-> "bearer"]

\* lines 80-87
LoginCheck(c) ==
    /\ pc[c] = "login"
    /\ IF login_validate(arg[c]) # None
       THEN Respond(c, login_validate(arg[c])[1])
       ELSE Goto(c, "login_fetch") /\ UNCHANGED resp
    /\ UNCHANGED <<storeVars, now, JWT_SECRET, op, tok, arg, user, loc, held, cfgVars, reads, poolVars>>

\* lines 89-108: the SELECT, and what follows it without another statement
Login(c) ==
    /\ pc[c] = "login_fetch"
    /\ \E found \in FetchOne(ByUsername(staff_credentials, arg[c].username)) :
        /\ Respond(c, login(arg[c], found, JWT_SECRET, now))
        /\ user' = [user EXCEPT ![c] = IF found = None THEN NoUser ELSE found[1]]
    /\ UNCHANGED <<storeVars, now, JWT_SECRET, op, tok, arg, loc, held, cfgVars, reads, poolVars>>

(***************************************************************************)
(* POST /auth/signup                                                       *)
(***************************************************************************)
signup_validate(payload) ==
    IF FalsyStr(payload, "username") \/ Falsy(payload, "password") \/ ~Has(payload, "staff_id")
        THEN Some(HTTPException(400, "username, password, and staff_id are required"))
    ELSE IF Len(encode(payload.password)) > 72
        THEN Some(HTTPException(400, "Password cannot exceed 72 bytes"))
    ELSE None

\* the role of the new account: the first user becomes admin
signup_role(payload, count) ==
    IF ~FalsyStr(payload, "role") THEN payload.role
    ELSE IF count = 0 THEN "admin" ELSE "sales"

SignupCheck(c) ==
    /\ pc[c] = "signup"
    /\ IF signup_validate(arg[c]) # None
       THEN Respond(c, signup_validate(arg[c])[1])
       ELSE IF ByUsername(staff_credentials, arg[c].username) # {}
       THEN Respond(c, HTTPException(400, "Username already exists"))
       ELSE Goto(c, "signup_count") /\ UNCHANGED resp
    /\ UNCHANGED <<storeVars, now, JWT_SECRET, op, tok, arg, user, loc, held, cfgVars, reads, poolVars>>

SignupCount(c) ==
    /\ pc[c] = "signup_count"
    /\ loc' = [loc EXCEPT ![c] = [role |-> signup_role(arg[c], Len(staff_credentials))]]
    /\ Goto(c, "signup_insert")
    /\ UNCHANGED <<storeVars, now, JWT_SECRET, op, tok, arg, user, resp, held, cfgVars, reads, poolVars>>

SignupInsert(c) ==
    /\ pc[c] = "signup_insert"
    /\ \E salt \in Salts :
        IF Has(hash_password(Slice(arg[c].password, 72), salt), "error")
        THEN /\ Respond(c, InternalServerError)
             /\ UNCHANGED staff_credentials
        ELSE /\ staff_credentials' = Append(staff_credentials,
                    [staff_id |-> arg[c].staff_id, username |-> arg[c].username,
                     password_hash |-> hash_password(Slice(arg[c].password, 72), salt),
                     role |-> loc[c].role, status |-> "active"])
             /\ Goto(c, "signup_fetch")
             /\ UNCHANGED resp
    /\ UNCHANGED <<staff_users, now, JWT_SECRET, op, tok, arg, user, loc, held, cfgVars, reads, poolVars>>

SignupFetch(c) ==
    /\ pc[c] = "signup_fetch"
    /\ \E created \in ByUsername(staff_credentials, arg[c].username) :
        Respond(c, UserPublic(created, "None"))
    /\ UNCHANGED <<storeVars, now, JWT_SECRET, op, tok, arg, user, loc, held, cfgVars, reads, poolVars>>

(***************************************************************************)
(* POST /staff (create_staff), admin only                                  *)
(***************************************************************************)
CreateStaffCheck(c) ==
    /\ pc[c] = "Authorized"
    /\ op[c] = "create_staff"
    /\ IF Len(encode(arg[c].password)) > 72
       THEN Respond(c, HTTPException(400, "Password cannot exceed 72 bytes"))
       ELSE IF arg[c].status \notin {"active", "inactive"}
       THEN Respond(c, HTTPException(400, "Status must be 'active' or 'inactive'"))
       ELSE IF ByUsername(staff_credentials, arg[c].username) # {}
       THEN Respond(c, HTTPException(400, "Username already exists"))
       ELSE Goto(c, "cs_insert_staff") /\ UNCHANGED resp
    /\ UNCHANGED <<storeVars, now, JWT_SECRET, op, tok, arg, user, loc, held, cfgVars, reads, poolVars>>

CreateStaffInsertStaff(c) ==
    /\ pc[c] = "cs_insert_staff"
    /\ staff_users' = Append(staff_users,
            [staff_name |-> arg[c].staff_name, role |-> arg[c].role, status |-> arg[c].status])
    /\ Goto(c, "cs_fetch_staff")
    /\ UNCHANGED <<staff_credentials, now, JWT_SECRET, op, tok, arg, user, resp, loc, held, cfgVars, reads, poolVars>>

\* SELECT id FROM staff_users WHERE staff_name = %s ORDER BY id DESC LIMIT 1
LastStaffNamed(table, staff_name) ==
    CHOOSE i \in 1..Len(table) :
        /\ table[i].staff_name = staff_name
        /\ \A j \in 1..Len(table) : table[j].staff_name = staff_name => j <= i

CreateStaffFetchStaff(c) ==
    /\ pc[c] = "cs_fetch_staff"
    /\ loc' = [loc EXCEPT ![c] = [staff_id |-> LastStaffNamed(staff_users, arg[c].staff_name)]]
    /\ Goto(c, "cs_insert_creds")
    /\ UNCHANGED <<storeVars, now, JWT_SECRET, op, tok, arg, user, resp, held, cfgVars, reads, poolVars>>

CreateStaffInsertCreds(c) ==
    /\ pc[c] = "cs_insert_creds"
    /\ \E salt \in Salts :
        IF Has(hash_password(Slice(arg[c].password, 72), salt), "error")
        THEN /\ Respond(c, InternalServerError)
             /\ UNCHANGED staff_credentials
        ELSE /\ staff_credentials' = Append(staff_credentials,
                    [staff_id |-> loc[c].staff_id, username |-> arg[c].username,
                     password_hash |-> hash_password(Slice(arg[c].password, 72), salt),
                     role |-> arg[c].role, status |-> arg[c].status])
             /\ Goto(c, "cs_fetch_created")
             /\ UNCHANGED resp
    /\ UNCHANGED <<staff_users, now, JWT_SECRET, op, tok, arg, user, loc, held, cfgVars, reads, poolVars>>

CreateStaffFetchCreated(c) ==
    /\ pc[c] = "cs_fetch_created"
    /\ \E created \in ByUsername(staff_credentials, arg[c].username) :
        Respond(c, UserPublic(created, arg[c].staff_name))
    /\ UNCHANGED <<storeVars, now, JWT_SECRET, op, tok, arg, user, loc, held, cfgVars, reads, poolVars>>

(***************************************************************************)
(* PUT /staff/{cred_id} (update_staff), admin only                         *)
(***************************************************************************)
\* the columns each UPDATE of update_staff sets, from the fields given
staff_updates(a) == Restrict(a, {"staff_name", "role", "status"})

creds_updates(a, salt) ==
    [k \in DOMAIN Restrict(a, {"username", "role", "status"})
           \cup (IF Has(a, "password") THEN {"password_hash"} ELSE {}) |->
        IF k = "password_hash" THEN hash_password(Slice(a.password, 72), salt) ELSE a[k]]

UpdateStaffFind(c) ==
    /\ pc[c] = "Authorized"
    /\ op[c] = "update_staff"
    /\ IF ById(staff_credentials, arg[c].cred_id) = {}
       THEN /\ Respond(c, HTTPException(404, "No credentials found"))
            /\ UNCHANGED loc
       ELSE /\ \E existing_creds \in ById(staff_credentials, arg[c].cred_id) :
                loc' = [loc EXCEPT ![c] = [staff_id |-> existing_creds.staff_id,
                                           username |-> existing_creds.username]]
            /\ Goto(c, "us_find_staff")
            /\ UNCHANGED resp
    /\ UNCHANGED <<storeVars, now, JWT_SECRET, op, tok, arg, user, held, cfgVars, reads, poolVars>>

\* where update_staff goes on once its checks have passed
AfterChecks(a) ==
    IF DOMAIN staff_updates(a) # {} THEN "us_update_staff" ELSE "us_update_creds"

UpdateStaffFindStaff(c) ==
    /\ pc[c] = "us_find_staff"
    /\ IF ById(staff_users, loc[c].staff_id) = {}
       THEN Respond(c, HTTPException(404, "Staff ID not found"))
       ELSE IF Has(arg[c], "status") /\ arg[c].status \notin {"active", "inactive"}
       THEN Respond(c, HTTPException(400, "Status must be 'active' or 'inactive'"))
       ELSE IF Has(arg[c], "password") /\ Len(encode(arg[c].password)) > 72
       THEN Respond(c, HTTPException(400, "Password cannot exceed 72 bytes"))
       ELSE IF Has(arg[c], "password")
               /\ \A salt \in Salts : Has(hash_password(Slice(arg[c].password, 72), salt), "error")
       THEN Respond(c, InternalServerError)
       ELSE IF Has(arg[c], "username") /\ arg[c].username # loc[c].username
       THEN Goto(c, "us_dup") /\ UNCHANGED resp
       ELSE Goto(c, AfterChecks(arg[c])) /\ UNCHANGED resp
    /\ UNCHANGED <<storeVars, now, JWT_SECRET, op, tok, arg, user, loc, held, cfgVars, reads, poolVars>>

UpdateStaffDup(c) ==
    /\ pc[c] = "us_dup"
    /\ IF ByUsername(staff_credentials, arg[c].username) # {}
       THEN Respond(c, HTTPException(400, "Username already exists"))
       ELSE Goto(c, AfterChecks(arg[c])) /\ UNCHANGED resp
    /\ UNCHANGED <<storeVars, now, JWT_SECRET, op, tok, arg, user, loc, held, cfgVars, reads, poolVars>>

UpdateStaffUsers(c) ==
    /\ pc[c] = "us_update_staff"
    /\ staff_users' = Update(staff_users, loc[c].staff_id, staff_updates(arg[c]))
    /\ Goto(c, "us_update_creds")
    /\ UNCHANGED <<staff_credentials, now, JWT_SECRET, op, tok, arg, user, resp, loc, held, cfgVars, reads, poolVars>>

UpdateStaffCreds(c) ==
    /\ pc[c] = "us_update_creds"
    /\ \E salt \in Salts :
        IF DOMAIN creds_updates(arg[c], salt) # {}
        THEN /\ staff_credentials' =
                    Update(staff_credentials, arg[c].cred_id, creds_updates(arg[c], salt))
             /\ Goto(c, "us_fetch")
             /\ UNCHANGED resp
        ELSE IF DOMAIN staff_updates(arg[c]) = {}
        THEN /\ Respond(c, HTTPException(400, "No fields to update"))
             /\ UNCHANGED staff_credentials
        ELSE /\ Goto(c, "us_fetch")
             /\ UNCHANGED <<staff_credentials, resp>>
    /\ UNCHANGED <<staff_users, now, JWT_SECRET, op, tok, arg, user, loc, held, cfgVars, reads, poolVars>>

\* the two SELECTs of the response
UpdateStaffFetch(c) ==
    /\ pc[c] = "us_fetch"
    /\ \E updated_user \in ById(staff_credentials, arg[c].cred_id),
          updated_staff \in ById(staff_users, loc[c].staff_id) :
        Respond(c, UserPublic(updated_user, updated_staff.staff_name))
    /\ UNCHANGED <<storeVars, now, JWT_SECRET, op, tok, arg, user, loc, held, cfgVars, reads, poolVars>>

(***************************************************************************)
(* DELETE /staff/{cred_id} (delete_staff), admin only: a soft delete       *)
(***************************************************************************)
DeleteStaffFind(c) ==
    /\ pc[c] = "Authorized"
    /\ op[c] = "delete_staff"
    /\ IF ById(staff_credentials, arg[c].cred_id) = {}
       THEN /\ Respond(c, HTTPException(404, "No credentials found"))
            /\ UNCHANGED loc
       ELSE /\ \E existing_creds \in ById(staff_credentials, arg[c].cred_id) :
                loc' = [loc EXCEPT ![c] = [staff_id |-> existing_creds.staff_id]]
            /\ Goto(c, "ds_update_creds")
            /\ UNCHANGED resp
    /\ UNCHANGED <<storeVars, now, JWT_SECRET, op, tok, arg, user, held, cfgVars, reads, poolVars>>

\* variant that deletes the row instead of flagging it
DeleteStaffCredsPhysically(c) ==
    /\ pc[c] = "ds_update_creds"
    /\ staff_credentials' =
            [i \in 1..(Len(staff_credentials) - 1) |->
                IF i < arg[c].cred_id THEN staff_credentials[i] ELSE staff_credentials[i + 1]]
    /\ Goto(c, "ds_update_staff")
    /\ UNCHANGED <<staff_users, now, JWT_SECRET, op, tok, arg, user, resp, loc, held, cfgVars, reads, poolVars>>

DeleteStaffCreds(c) ==
    /\ pc[c] = "ds_update_creds"
    /\ staff_credentials' = Update(staff_credentials, arg[c].cred_id, [status |-> "inactive"])
    /\ Goto(c, "ds_update_staff")
    /\ UNCHANGED <<staff_users, now, JWT_SECRET, op, tok, arg, user, resp, loc, held, cfgVars, reads, poolVars>>

\* the SELECT of the staff_users row and, if there is one, its UPDATE
DeleteStaffUsers(c) ==
    /\ pc[c] = "ds_update_staff"
    /\ staff_users' = IF ById(staff_users, loc[c].staff_id) # {}
                      THEN Update(staff_users, loc[c].staff_id, [status |-> "inactive"])
                      ELSE staff_users
    /\ Respond(c, [status |-> 200, message |-> "Staff soft-deleted successfully"])
    /\ UNCHANGED <<staff_credentials, now, JWT_SECRET, op, tok, arg, user, loc, held, cfgVars, reads, poolVars>>

(***************************************************************************)
(* The system.                                                             *)
(***************************************************************************)
Next ==
    \/ Tick
    \/ \E c \in Clients :
        \/ SendOpen(c)
        \/ SendProtected(c)
        \/ Deliver(c)
        \/ VerifyToken(c)
        \/ ResolveIdentity(c)
        \/ CheckRole(c)
        \/ EnterHandler(c)
        \/ RunBusiness(c)
        \/ LoginCheck(c)
        \/ Login(c)
        \/ SignupCheck(c)
        \/ SignupCount(c)
        \/ SignupInsert(c)
        \/ SignupFetch(c)
        \/ CreateStaffCheck(c)
        \/ CreateStaffInsertStaff(c)
        \/ CreateStaffFetchStaff(c)
        \/ CreateStaffInsertCreds(c)
        \/ CreateStaffFetchCreated(c)
        \/ UpdateStaffFind(c)
        \/ UpdateStaffFindStaff(c)
        \/ UpdateStaffDup(c)
        \/ UpdateStaffUsers(c)
        \/ UpdateStaffCreds(c)
        \/ UpdateStaffFetch(c)
        \/ DeleteStaffFind(c)
        \/ DeleteStaffCreds(c)
        \/ DeleteStaffUsers(c)

Spec == Init /\ [][Next]_vars

(***************************************************************************)
(* Configuration of a guard: require_roles is applied to a list of roles   *)
(* when the module of a route is imported, and the guard it returns serves *)
(* requests only once the import has succeeded.                            *)
(***************************************************************************)
RolePool == ALLOWED_ROLES \cup {"manager"}

RoleLists == UNION {[1..n -> RolePool] : n \in 0..MaxGuardRoles}

InitGuard ==
    /\ NoRows
    /\ now = 0
    /\ JWT_SECRET = "k1"
    /\ NoRequests
    /\ OpenPool
    /\ cfgRoles \in RoleLists
    /\ guard = NoArgs
    /\ cfgUser = NoUser
    /\ cfgOut = NoResp
    /\ issue_in = NoArgs
    /\ issued = NoCredentials
    /\ verified = NoResp
    /\ pw_in = NoArgs
    /\ pw_out = NoResp

\* the import of the route's module: Depends(require_roles([...]))
Configure ==
    /\ guard = NoArgs
    /\ guard' = require_roles(cfgRoles)
    /\ UNCHANGED <<storeVars, now, JWT_SECRET, reqVars, cfgRoles, cfgUser, cfgOut,
                   issue_in, issued, verified, pw_in, pw_out, reads, poolVars>>

\* a request to the route, whose account get_current_user has returned
ServeGuard ==
    /\ Has(guard, "roles")
    /\ \E r \in RolePool :
        /\ cfgUser' = [id |-> 1, username |-> "alice", role |-> r, status |-> "active"]
        /\ cfgOut' = dep(guard.roles, cfgUser')
    /\ UNCHANGED <<storeVars, now, JWT_SECRET, reqVars, cfgRoles, guard,
                   issue_in, issued, verified, pw_in, pw_out, reads, poolVars>>

NextGuard == Configure \/ ServeGuard

SpecGuard == InitGuard /\ [][NextGuard]_vars

(***************************************************************************)
(* The round trip of a token: login's call of create_access_token, then    *)
(* get_current_user's verification, at the same time and under one secret. *)
(***************************************************************************)
InitToken ==
    /\ NoRows
    /\ now \in {0, TickMinutes}
    /\ JWT_SECRET \in Secrets
    /\ NoRequests
    /\ OpenPool
    /\ cfgRoles = <<>>
    /\ guard = NoArgs
    /\ cfgUser = NoUser
    /\ cfgOut = NoResp
    /\ issue_in \in [id : 1..MaxSubject, role : ALLOWED_ROLES]
    /\ issued = NoCredentials
    /\ verified = NoResp
    /\ pw_in = NoArgs
    /\ pw_out = NoResp

IssueToken ==
    /\ issued = NoCredentials
    /\ issued' = create_access_token(
                    [sub |-> str(issue_in.id), role |-> issue_in.role], None, JWT_SECRET, now)
    /\ UNCHANGED <<storeVars, now, JWT_SECRET, reqVars, cfgRoles, guard, cfgUser, cfgOut,
                   issue_in, verified, pw_in, pw_out, reads, poolVars>>

VerifyIssued ==
    /\ issued # NoCredentials
    /\ verified = NoResp
    /\ verified' = check_token(issued, JWT_SECRET, now)
    /\ UNCHANGED <<storeVars, now, JWT_SECRET, reqVars, cfgRoles, guard, cfgUser, cfgOut,
                   issue_in, issued, pw_in, pw_out, reads, poolVars>>

NextToken == IssueToken \/ VerifyIssued

SpecToken == InitToken /\ [][NextToken]_vars

(***************************************************************************)
(* The life of a token: create_access_token issues it, the clock advances  *)
(* minute by minute, the process is restarted with another JWT_SECRET, and *)
(* get_current_user verifies the token when its holder presents it.        *)
(***************************************************************************)
\* expires_delta: absent, timedelta(0), timedelta(minutes=30)
Deltas == {None, Some(0), Some(30)}

\* what create_access_token is given to sign: login's subject; for c1 also
\* one without "sub"
SubjectsOf(c) ==
    IF c = "c1" THEN {[sub |-> str(1), role |-> "admin"], [role |-> "admin"]}
    ELSE {[sub |-> str(2), role |-> "sales"]}

DeltasOf(c) == IF c = "c1" THEN Deltas ELSE {None}

InitLifetime ==
    /\ NoRows
    /\ now = 0
    /\ JWT_SECRET = "k1"
    /\ NoRequests
    /\ OpenPool
    /\ cfgRoles = <<>>
    /\ guard = NoArgs
    /\ cfgUser = NoUser
    /\ cfgOut = NoResp
    /\ issue_in = [c \in Clients |-> NoArgs]
    /\ issued = NoCredentials
    /\ verified = NoResp
    /\ pw_in = NoArgs
    /\ pw_out = NoResp

\* create_access_token(subject, expires_delta), the token going to client c
IssueFor(c) ==
    /\ verified = NoResp
    /\ now <= IssueUntil
    /\ \E subject \in SubjectsOf(c) : \E expires_delta \in DeltasOf(c) :
        /\ held' = [held EXCEPT ![c] =
                        {create_access_token(subject, expires_delta, JWT_SECRET, now)}]
        /\ issue_in' = [issue_in EXCEPT ![c] =
                        [subject |-> subject, expires_delta |-> expires_delta, iat |-> now]]
    /\ UNCHANGED <<storeVars, now, JWT_SECRET, pc, op, tok, arg, user, resp, loc,
                   cfgRoles, guard, cfgUser, cfgOut, issued, verified, pw_in, pw_out, reads, poolVars>>

TickMinute ==
    /\ verified = NoResp
    /\ now < MaxClock
    /\ now' = now + 1
    /\ UNCHANGED <<storeVars, JWT_SECRET, reqVars, cfgVars, reads, poolVars>>

\* the process is restarted with another JWT_SECRET in its environment
RotateSecret ==
    /\ verified = NoResp
    /\ \E k \in Secrets \ {JWT_SECRET} : JWT_SECRET' = k
    /\ UNCHANGED <<storeVars, now, reqVars, cfgVars, reads, poolVars>>

\* client c presents the token it holds: get_current_user, lines 44-54
PresentHeld(c) ==
    /\ verified = NoResp
    /\ \E t \in held[c] :
        /\ issued' = t
        /\ verified' = check_token(t, JWT_SECRET, now)
    /\ UNCHANGED <<storeVars, now, JWT_SECRET, reqVars, cfgRoles, guard, cfgUser, cfgOut,
                   issue_in, pw_in, pw_out, reads, poolVars>>

\* the request is over
ForgetVerified ==
    /\ verified # NoResp
    /\ issued' = NoCredentials
    /\ verified' = NoResp
    /\ UNCHANGED <<storeVars, now, JWT_SECRET, reqVars, cfgRoles, guard, cfgUser, cfgOut,
                   issue_in, pw_in, pw_out, reads, poolVars>>

NextLifetime ==
    \/ TickMinute
    \/ RotateSecret
    \/ ForgetVerified
    \/ \E c \in Clients :
        \/ IssueFor(c)
        \/ PresentHeld(c)

SpecLifetime == InitLifetime /\ [][NextLifetime]_vars

(***************************************************************************)
(* Properties.                                                             *)
(***************************************************************************)
HandlerPcs ==
    {"Authorized", "cs_insert_staff", "cs_fetch_staff", "cs_insert_creds", "cs_fetch_created",
     "us_find_staff", "us_dup", "us_update_staff", "us_update_creds", "us_fetch",
     "ds_update_creds", "ds_update_staff"}

\* the request of c goes, or went, through the chain of a protected operation
IsProtected(c) == op[c] = "protected" \/ op[c] \in ProtectedOps

\* the token c presents names, as its subject, the id of a row
NamesRow(c) ==
    /\ tok[c].kind = "jws"
    /\ Has(tok[c].payload, "sub")
    /\ IsIntLiteral(tok[c].payload.sub)
    /\ int(tok[c].payload.sub) \in 1..Len(staff_credentials)

RowOf(c) == staff_credentials[int(tok[c].payload.sub)]

\* the token c presents is well formed, signed with the secret and unexpired
GoodToken(c) == jwt_decode(tok[c], JWT_SECRET, now).ok

\* C1: get_current_user succeeds only if the row whose id is the token's
\* subject exists and is active when it is looked up, and a token whose
\* subject is the id of no row, or of an inactive one, is answered 401.
C1_OnlyActiveAccountsPass ==
    [][\A c \in Clients :
        /\ (pc[c] # "IdentityResolved" /\ pc'[c] = "IdentityResolved")
             => (NamesRow(c) /\ RowOf(c).status = "active" /\ user'[c].id = int(tok[c].payload.sub))
        /\ (pc[c] = "TokenValidated" /\ pc'[c] # "TokenValidated"
              /\ IsIntLiteral(tok[c].payload.sub)
              /\ ~(NamesRow(c) /\ RowOf(c).status = "active"))
             => (pc'[c] = "Responded" /\ resp'[c].status = 401)]_vars

C1_Witness ==
    \E c \in Clients :
        /\ pc[c] = "Responded" /\ op[c] = "protected"
        /\ GoodToken(c) /\ NamesRow(c) /\ RowOf(c).status = "inactive"
        /\ resp[c].status = 401

\* C2 as stated: once the account is inactive, no request presenting its
\* token reaches Authorized or runs a protected handler.
C2_NoUseAfterDeactivation ==
    [][\A c \in Clients :
        (NamesRow(c) /\ RowOf(c).status = "inactive")
            => /\ ~(pc[c] = "RoleChecked" /\ pc'[c] = "Authorized")
               /\ ~(pc[c] = "Authorized" /\ op[c] \in BusinessOps /\ pc'[c] = "Responded")]_vars

\* C2 as amended: a request whose lookup has not yet happened when the
\* account is inactive does not get past the lookup while it stays inactive,
\* and the lookup answers 401.
C2_DeactivatedStopsAtLookup ==
    [][\A c \in Clients :
        (NamesRow(c) /\ RowOf(c).status = "inactive"
            /\ pc[c] \in {"Unauthenticated", "TokenValidated"})
            => /\ pc'[c] \in {"Unauthenticated", "TokenValidated", "Responded"}
               /\ (pc[c] = "TokenValidated" /\ pc'[c] = "Responded")
                    => resp'[c] = HTTPException(401, "Inactive or missing user")]_vars

C2_Witness ==
    \E c \in Clients :
        /\ pc[c] = "Responded" /\ op[c] = "protected"
        /\ tok[c] \in held[c]
        /\ GoodToken(c) /\ NamesRow(c) /\ RowOf(c).status = "inactive"
        /\ resp[c] = HTTPException(401, "Inactive or missing user")
        /\ \E i \in 1..Len(staff_users) : staff_users[i].status = "inactive"

\* C3: the account a request is authorized as is the row read from the store
\* during that request, and the guard decides on that row's role, whatever
\* role the token carries; nothing is kept from an earlier request.
C3_StoredRoleDecides ==
    [][\A c \in Clients :
        /\ (pc[c] = "TokenValidated" /\ pc'[c] = "IdentityResolved")
             => (NamesRow(c) /\ user'[c].role = RowOf(c).role /\ user'[c].status = RowOf(c).status)
        /\ (pc[c] = "IdentityResolved" /\ pc'[c] # "IdentityResolved")
             => /\ (pc'[c] = "RoleChecked") <=> (user[c].role \in Range(RouteRoles[op'[c]]))
                /\ user'[c] = user[c]
        /\ (pc[c] = "idle" /\ pc'[c] # "idle") => (user'[c] = NoUser /\ loc'[c] = NoArgs)]_vars

C3_Witness ==
    \E c \in Clients :
        /\ pc[c] = "Authorized" /\ op[c] \in ProtectedOps
        /\ tok[c] \in held[c]
        /\ tok[c].payload.role # user[c].role
        /\ tok[c].payload.role \notin Range(RouteRoles[op[c]])

GatePcs == {"Unauthenticated", "TokenValidated", "IdentityResolved", "RoleChecked"}

\* a handler of a protected operation is running, or has run, for c
HandlerRan(c) ==
    \/ pc[c] \in HandlerPcs
    \/ pc[c] = "Responded" /\ IsProtected(c) /\ (arg[c] # NoArgs \/ Has(resp[c], "account"))

\* the request of c passed token verification, identity resolution and the
\* role check of its route
Admitted(c) ==
    /\ tok[c].kind = "jws" /\ tok[c].key = JWT_SECRET
    /\ ~Falsy(tok[c].payload, "sub")
    /\ user[c] # NoUser /\ user[c].id = int(tok[c].payload.sub)
    /\ user[c].status = "active"
    /\ op[c] \in ProtectedOps /\ user[c].role \in Range(RouteRoles[op[c]])

\* C4: a handler of a protected operation runs only for a request whose
\* token is a JWS signed with the secret and carrying a subject, whose
\* account was found active, and whose role the route permits; the steps
\* before the handler, and a refusal among them, change nothing in the store
\* and a refused request has bound no handler parameter.
C4_NoPartialAuthorization ==
    [][\A c \in Clients :
        /\ HandlerRan(c)' => Admitted(c)'
        /\ (pc[c] \in GatePcs /\ pc'[c] # pc[c])
             => /\ UNCHANGED storeVars
                /\ pc'[c] \in GatePcs \cup {"Authorized", "Responded"}
                /\ pc'[c] = "Responded"
                     => (resp'[c].status \in {401, 403, 500} /\ arg'[c] = NoArgs)]_vars

C4_Witness ==
    \E c, d \in Clients :
        /\ pc[c] \in HandlerPcs \ {"Authorized"}
        /\ pc[d] = "Responded" /\ IsProtected(d) /\ resp[d].status = 403

\* C5: a request passes the stages in order, the lookup only after the
\* token was verified and the role check only after the lookup; 401 comes
\* from the token or the identity stage alone, 403 from the role check alone.
C5_StagesInOrder ==
    [][\A c \in Clients : (pc'[c] # pc[c]) =>
        /\ pc'[c] = "Unauthenticated" => pc[c] = "idle"
        /\ pc'[c] = "TokenValidated" => (pc[c] = "Unauthenticated" /\ GoodToken(c))
        /\ pc'[c] = "IdentityResolved" => pc[c] = "TokenValidated"
        /\ pc'[c] = "RoleChecked" => pc[c] = "IdentityResolved"
        /\ pc'[c] = "Authorized" => pc[c] = "RoleChecked"
        /\ pc'[c] \in HandlerPcs \ {"Authorized"} => pc[c] \in HandlerPcs
        /\ (user'[c] # user[c] /\ IsProtected(c) /\ pc'[c] # "idle") => pc[c] = "TokenValidated"
        /\ (pc'[c] = "Responded" /\ IsProtected(c) /\ resp'[c].status = 401)
             => pc[c] \in {"Unauthenticated", "TokenValidated"}
        /\ (pc'[c] = "Responded" /\ IsProtected(c) /\ resp'[c].status = 403)
             => pc[c] = "IdentityResolved"]_vars

C5_Witness ==
    \E c, d \in Clients :
        /\ pc[c] = "Responded" /\ op[c] \in BusinessOps /\ resp[c].status = 200
        /\ pc[d] = "Responded" /\ IsProtected(d) /\ resp[d].status = 401

\* C6: the guard of a route lets an authenticated account through, unchanged,
\* exactly if the account's role is in the route's list, and answers 403
\* otherwise.
C6_GuardIffPermitted ==
    \A c \in Clients : op[c] \in ProtectedOps =>
        /\ user[c] # NoUser
        /\ user[c].role \in Range(RouteRoles[op[c]])
             => /\ pc[c] \in HandlerPcs \cup {"RoleChecked", "Responded"}
                /\ pc[c] = "Responded" => resp[c].status # 403
                /\ (pc[c] = "Responded" /\ op[c] \in BusinessOps)
                     => (resp[c].status = 200 /\ resp[c].account = user[c])
        /\ user[c].role \notin Range(RouteRoles[op[c]])
             => (pc[c] = "Responded" /\ resp[c] = HTTPException(403, "Insufficient role")
                    /\ arg[c] = NoArgs)

C6_Witness ==
    \E c \in Clients :
        /\ pc[c] = "Responded" /\ op[c] = "delete_staff"
        /\ tok[c] \in held[c] /\ tok[c].payload.role = "sales"
        /\ user[c].role = "sales" /\ resp[c].status = 403

\* C7: require_roles yields a guard exactly if every role of the list is in
\* the registry, and a ValueError otherwise; requests are served by guards
\* of valid lists only, and are answered by the account or by 403.
C7_GuardValidatedAtConfiguration ==
    /\ guard # NoArgs =>
        IF \A i \in 1..Len(cfgRoles) : cfgRoles[i] \in ALLOWED_ROLES
        THEN guard = [roles |-> cfgRoles]
        ELSE guard = ValueError
    /\ cfgOut # NoResp =>
        /\ Has(guard, "roles") /\ Range(guard.roles) \subseteq ALLOWED_ROLES
        /\ cfgOut \in {[ok |-> TRUE, user |-> cfgUser],
                       [ok |-> FALSE, resp |-> HTTPException(403, "Insufficient role")]}

C7_Witness == guard = ValueError /\ \E i \in 1..Len(cfgRoles) : cfgRoles[i] = "manager"

\* the gate itself refused the request of c with 401
GateRefused(c) == pc[c] = "Responded" /\ op[c] = "protected" /\ resp[c].status = 401

\* C8: two requests the gate refuses get one and the same response.
C8_OneOutwardSignal ==
    \A c, d \in Clients : (GateRefused(c) /\ GateRefused(d)) => resp[c] = resp[d]

\* C9: every request that fails in the gate is answered 401.
C9_GateFailureIs401 ==
    \A c \in Clients : (pc[c] = "Responded" /\ op[c] = "protected") => resp[c].status = 401

\* C10: verifying a token right after it was issued, under the same secret,
\* succeeds and returns the subject id and the role it was issued for.
C10_TokenRoundTrip ==
    verified # NoResp =>
        /\ verified.ok
        /\ verified.payload.sub = str(issue_in.id)
        /\ IsIntLiteral(verified.user_id) /\ int(verified.user_id) = issue_in.id
        /\ verified.payload.role = issue_in.role

C10_Witness == verified # NoResp /\ verified.ok /\ issue_in.id > 99 /\ issue_in.role = "project_manager"

(***************************************************************************)
(* hash_password and verify_password applied to passwords around the       *)
(* 72-byte limit, and verify_password and login applied to a stored value  *)
(* that is no digest.                                                      *)
(***************************************************************************)
Rep(ch, n) == [i \in 1..n |-> ch]

\* short ones, one holding NUL, runs of a one-byte character around 72
\* characters, and passwords of two-byte characters: 72 bytes in 36
\* characters, 73 bytes in 72 characters, 144 bytes in 72 characters
Passwords ==
    {<<>>, PW1, <<"p", NUL>>}
    \cup {Rep("a", n) : n \in (BCRYPT_MAX - MaxOver)..(BCRYPT_MAX + MaxOver)}
    \cup {Rep("E", 36), Rep("a", 71) \o <<"E">>, Rep("E", 72)}

\* what is appended to a password
Extras == {<<"x">>, <<"E">>, <<NUL>>}

InitPassword ==
    /\ NoRows
    /\ now = 0
    /\ JWT_SECRET = "k1"
    /\ NoRequests
    /\ OpenPool
    /\ cfgRoles = <<>>
    /\ guard = NoArgs
    /\ cfgUser = NoUser
    /\ cfgOut = NoResp
    /\ issue_in = NoArgs
    /\ issued = NoCredentials
    /\ verified = NoResp
    /\ pw_in \in [p : Passwords, extra : Extras, salt : Salts,
                  stored : MalformedDigests \cup {NoDigest}]
    /\ pw_out = NoResp

\* hash_password(p) and hash_password(p + extra), with one salt
HashPasswords ==
    /\ pw_out = NoResp
    /\ pw_out' = [digest |-> hash_password(pw_in.p, pw_in.salt),
                  digest_ext |-> hash_password(pw_in.p \o pw_in.extra, pw_in.salt)]
    /\ UNCHANGED <<storeVars, now, JWT_SECRET, reqVars, cfgRoles, guard, cfgUser, cfgOut,
                   issue_in, issued, verified, pw_in, reads, poolVars>>

\* verify_password of p, of p + "x" and of p + extra against hash_password(p)
VerifyPasswords ==
    /\ DOMAIN pw_out = {"digest", "digest_ext"}
    /\ ~Has(pw_out.digest, "error")
    /\ pw_out' = [digest |-> pw_out.digest,
                  digest_ext |-> pw_out.digest_ext,
                  same |-> verify_password(pw_in.p, pw_out.digest),
                  longer |-> verify_password(pw_in.p \o <<"x">>, pw_out.digest),
                  extended |-> verify_password(pw_in.p \o pw_in.extra, pw_out.digest)]
    /\ UNCHANGED <<storeVars, now, JWT_SECRET, reqVars, cfgRoles, guard, cfgUser, cfgOut,
                   issue_in, issued, verified, pw_in, reads, poolVars>>

\* verify_password against the stored value
VerifyStored ==
    /\ pw_out = NoResp
    /\ pw_out' = [stored |-> verify_password(pw_in.p, pw_in.stored)]
    /\ UNCHANGED <<storeVars, now, JWT_SECRET, reqVars, cfgRoles, guard, cfgUser, cfgOut,
                   issue_in, issued, verified, pw_in, reads, poolVars>>

\* login with p for the account whose row holds the stored value
LoginStored ==
    /\ DOMAIN pw_out = {"stored"}
    /\ pw_out' = [stored |-> pw_out.stored,
                  login |-> login([username |-> "alice", password |-> pw_in.p],
                                  Some([id |-> 1, username |-> "alice", role |-> "admin",
                                        status |-> "active", password_hash |-> pw_in.stored]),
                                  JWT_SECRET, now)]
    /\ UNCHANGED <<storeVars, now, JWT_SECRET, reqVars, cfgRoles, guard, cfgUser, cfgOut,
                   issue_in, issued, verified, pw_in, reads, poolVars>>

NextPassword == HashPasswords \/ VerifyPasswords \/ VerifyStored \/ LoginStored

SpecPassword == InitPassword /\ [][NextPassword]_vars

(***************************************************************************)
(* Logins of every shape against a store that holds the administrator,     *)
(* registered by signup, and one member of staff, created by create_staff  *)
(* and possibly deactivated since by delete_staff.                         *)
(***************************************************************************)
StoredAccounts(status) ==
    <<[staff_id |-> 1, username |-> "alice", password_hash |-> hash_password(PW1, "s1"),
       role |-> "admin", status |-> "active"],
      [staff_id |-> 1, username |-> "bob", password_hash |-> hash_password(PW1, "s1"),
       role |-> "sales", status |-> status]>>

StoredStaff(status) == <<[staff_name |-> "n1", role |-> "sales", status |-> status]>>

\* payloads of login: any of the keys may be missing or empty, the username
\* known or not, the password right, wrong, with NUL, or long
LoginInputs ==
    {[username |-> u, password |-> pw] :
        u \in Usernames \cup {"carol", ""},
        pw \in {PW1, PW2, <<>>, <<"p", NUL>>, Rep("a", BCRYPT_MAX + MaxOver), Rep("E", 37)}}
    \cup {[username |-> u] : u \in Usernames}
    \cup {[password |-> PW1], [none |-> TRUE]}

InitLogin ==
    /\ \E status \in StatusInputs :
        /\ staff_credentials = StoredAccounts(status)
        /\ staff_users = StoredStaff(status)
    /\ now = 0
    /\ JWT_SECRET = "k1"
    /\ NoRequests
    /\ OpenPool
    /\ cfgRoles = <<>>
    /\ guard = NoArgs
    /\ cfgUser = NoUser
    /\ cfgOut = NoResp
    /\ issue_in = NoArgs
    /\ issued = NoCredentials
    /\ verified = NoResp
    /\ pw_in = NoArgs
    /\ pw_out = NoResp

\* POST /auth/login with any payload
SendLogin(c) ==
    /\ pc[c] = "idle"
    /\ \E a \in LoginInputs : arg' = [arg EXCEPT ![c] = a]
    /\ op' = [op EXCEPT ![c] = "login"]
    /\ Goto(c, "login")
    /\ UNCHANGED <<storeVars, now, JWT_SECRET, tok, user, resp, loc, held, cfgVars, reads, poolVars>>

NextLogin ==
    \E c \in Clients :
        \/ SendLogin(c)
        \/ LoginCheck(c)
        \/ Login(c)
        \/ Deliver(c)

SpecLogin == InitLogin /\ [][NextLogin]_vars

(***************************************************************************)
(* Registrations only: both clients call POST /auth/signup, which needs no *)
(* token, with or without a role, on a store that starts empty.            *)
(***************************************************************************)
SignupRoleInputs == {"", "admin", "sales", "manager"}

SignupInputs ==
    {[username |-> u, password |-> PW1, staff_id |-> 1] : u \in Usernames}
    \cup {[username |-> u, password |-> PW1, staff_id |-> 1, role |-> r] :
            u \in Usernames, r \in SignupRoleInputs}
    \cup {[password |-> PW1, staff_id |-> 1]}

SendSignup(c) ==
    /\ pc[c] = "idle"
    /\ Len(staff_credentials) + Inserting({"signup"}) < MaxRows
    /\ \E a \in SignupInputs : arg' = [arg EXCEPT ![c] = a]
    /\ op' = [op EXCEPT ![c] = "signup"]
    /\ Goto(c, "signup")
    /\ UNCHANGED <<storeVars, now, JWT_SECRET, tok, user, resp, loc, held, cfgVars, reads, poolVars>>

NextSignup ==
    \E c \in Clients :
        \/ SendSignup(c)
        \/ SignupCheck(c)
        \/ SignupCount(c)
        \/ SignupInsert(c)
        \/ SignupFetch(c)
        \/ Deliver(c)

SpecSignup == Init /\ [][NextSignup]_vars

(***************************************************************************)
(* A deactivated account and its token.  The administrator and a member of *)
(* staff have logged in, and delete_staff has deactivated the member of    *)
(* staff since; both still hold the tokens login gave them.  Nobody logs   *)
(* in again: the administrator edits and deletes staff, the member of      *)
(* staff presents the token, and the clock advances.                       *)
(***************************************************************************)
LoginToken(id, role, t) ==
    create_access_token([sub |-> str(id), role |-> role], None, "k1", t)

InitReactivate ==
    /\ staff_credentials = StoredAccounts("inactive")
    /\ staff_users = StoredStaff("inactive")
    /\ now = 0
    /\ JWT_SECRET = "k1"
    /\ pc = [c \in Clients |-> "idle"]
    /\ op = [c \in Clients |-> "none"]
    /\ tok = [c \in Clients |-> NoCredentials]
    /\ arg = [c \in Clients |-> NoArgs]
    /\ user = [c \in Clients |-> NoUser]
    /\ resp = [c \in Clients |-> NoResp]
    /\ loc = [c \in Clients |-> NoArgs]
    /\ held = [c \in Clients |->
                IF c = "c1" THEN {LoginToken(1, "admin", 0)} ELSE {LoginToken(2, "sales", 0)}]
    /\ reads = [c \in Clients |-> 0]
    /\ OpenPool
    /\ cfgRoles = <<>>
    /\ guard = NoArgs
    /\ cfgUser = NoUser
    /\ cfgOut = NoResp
    /\ issue_in = NoArgs
    /\ issued = NoCredentials
    /\ verified = NoResp
    /\ pw_in = NoArgs
    /\ pw_out = NoResp

NextReactivate ==
    \/ Tick
    \/ \E c \in Clients :
        \/ SendProtected(c)
        \/ Deliver(c)
        \/ VerifyToken(c)
        \/ ResolveIdentity(c)
        \/ CheckRole(c)
        \/ EnterHandler(c)
        \/ RunBusiness(c)
        \/ UpdateStaffFind(c)
        \/ UpdateStaffFindStaff(c)
        \/ UpdateStaffDup(c)
        \/ UpdateStaffUsers(c)
        \/ UpdateStaffCreds(c)
        \/ UpdateStaffFetch(c)
        \/ DeleteStaffFind(c)
        \/ DeleteStaffCreds(c)
        \/ DeleteStaffUsers(c)

SpecReactivate == InitReactivate /\ [][NextReactivate]_vars

(***************************************************************************)
(* Two sessions of the administrator manage the staff at once.  The        *)
(* administrator registered by signup, naming a staff_id of no row, and    *)
(* logged in twice; both sessions call create_staff, update_staff and      *)
(* delete_staff on the other accounts, concurrently.                       *)
(***************************************************************************)
AdminStaffId == MaxStaffRows + 7

StaffCreateArgs ==
    {[staff_name |-> "n1", role |-> "sales", status |-> "active", username |-> u,
      password |-> PW1] : u \in {"bob", "carol"}}

\* the calls that edit and delete are on the first account created
StaffUpdateArgs ==
    {[cred_id |-> 2, role |-> "accounts"], [cred_id |-> 2, username |-> "carol"]}
    \cup {[cred_id |-> 2, status |-> st] : st \in StatusInputs}

StaffDeleteArgs == {[cred_id |-> 2]}

StaffArgs(o) ==
    CASE o = "create_staff" -> StaffCreateArgs
      [] o = "update_staff" -> StaffUpdateArgs
      [] o = "delete_staff" -> StaffDeleteArgs

InitStaff ==
    /\ staff_credentials =
            <<[staff_id |-> AdminStaffId, username |-> "alice",
               password_hash |-> hash_password(PW1, "s1"), role |-> "admin", status |-> "active"]>>
    /\ staff_users = <<>>
    /\ now = 0
    /\ JWT_SECRET = "k1"
    /\ pc = [c \in Clients |-> "idle"]
    /\ op = [c \in Clients |-> "none"]
    /\ tok = [c \in Clients |-> NoCredentials]
    /\ arg = [c \in Clients |-> NoArgs]
    /\ user = [c \in Clients |-> NoUser]
    /\ resp = [c \in Clients |-> NoResp]
    /\ loc = [c \in Clients |-> NoArgs]
    /\ held = [c \in Clients |-> {LoginToken(1, "admin", 0)}]
    /\ reads = [c \in Clients |-> 0]
    /\ OpenPool
    /\ cfgRoles = <<>>
    /\ guard = NoArgs
    /\ cfgUser = NoUser
    /\ cfgOut = NoResp
    /\ issue_in = NoArgs
    /\ issued = NoCredentials
    /\ verified = NoResp
    /\ pw_in = NoArgs
    /\ pw_out = NoResp

\* a session calls a staff operation with the token it holds
SendStaff(c) ==
    /\ pc[c] = "idle"
    /\ \E t \in held[c] : tok' = [tok EXCEPT ![c] = t]
    /\ op' = [op EXCEPT ![c] = "protected"]
    /\ Goto(c, "Unauthenticated")
    /\ UNCHANGED <<storeVars, now, JWT_SECRET, arg, user, resp, loc, held, cfgVars, reads, poolVars>>

\* _dep of the guard of the staff route called
StaffCheckRole(c) ==
    /\ pc[c] = "IdentityResolved"
    /\ \E o \in StaffOps :
        /\ o = "create_staff" =>
            Len(staff_credentials) + Inserting({"create_staff"}) < MaxStaffRows
        /\ op' = [op EXCEPT ![c] = o]
        /\ LET r == dep(Guards[o].roles, user[c])
           IN  IF r.ok
               THEN /\ Goto(c, "RoleChecked")
                    /\ user' = [user EXCEPT ![c] = r.user]
                    /\ UNCHANGED resp
               ELSE /\ Respond(c, r.resp)
                    /\ UNCHANGED user
    /\ UNCHANGED <<storeVars, now, JWT_SECRET, tok, arg, loc, held, cfgVars, reads, poolVars>>

\* the handler is called with the parameters of the request
StaffEnterHandler(c) ==
    /\ pc[c] = "RoleChecked"
    /\ \E a \in StaffArgs(op[c]) : arg' = [arg EXCEPT ![c] = a]
    /\ Goto(c, "Authorized")
    /\ loc' = [loc EXCEPT ![c] = NoArgs]
    /\ UNCHANGED <<storeVars, now, JWT_SECRET, op, tok, user, resp, held, cfgVars, reads, poolVars>>

NextStaff ==
    \E c \in Clients :
        \/ SendStaff(c)
        \/ Deliver(c)
        \/ VerifyToken(c)
        \/ ResolveIdentity(c)
        \/ StaffCheckRole(c)
        \/ StaffEnterHandler(c)
        \/ CreateStaffCheck(c)
        \/ CreateStaffInsertStaff(c)
        \/ CreateStaffFetchStaff(c)
        \/ CreateStaffInsertCreds(c)
        \/ CreateStaffFetchCreated(c)
        \/ UpdateStaffFind(c)
        \/ UpdateStaffFindStaff(c)
        \/ UpdateStaffDup(c)
        \/ UpdateStaffUsers(c)
        \/ UpdateStaffCreds(c)
        \/ UpdateStaffFetch(c)
        \/ DeleteStaffFind(c)
        \/ DeleteStaffCreds(c)
        \/ DeleteStaffUsers(c)

SpecStaff == InitStaff /\ [][NextStaff]_vars

(***************************************************************************)
(* The store may fail.  fetch_one raises when the pool was never opened    *)
(* (the assert of pool.py 34), when no connection is to be had             *)
(* (PoolTimeout) and when the database does not answer the query           *)
(* (OperationalError); get_current_user calls it outside any try.          *)
(***************************************************************************)
StoreErrors == {"AssertionError", "PoolTimeout", "OperationalError"}

\* variant in which the failure is caught and reported as a failed login
lookup_failed_caught(payload, error) ==
    IF ~IsIntLiteral(payload.sub) THEN [ok |-> FALSE, resp |-> InternalServerError]
    ELSE [ok |-> FALSE, resp |-> HTTPException(401, "Inactive or missing user")]

\* security.py 56-63 when fetch_one raises: the exception leaves
\* get_current_user, and the framework answers 500
lookup_failed(payload, error) == [ok |-> FALSE, resp |-> InternalServerError]

\* get_current_user from the lookup on, the lookup failing
ResolveIdentityOutage(c) ==
    /\ pc[c] = "TokenValidated"
    /\ \E error \in StoreErrors :
        /\ Respond(c, lookup_failed(loc[c].payload, error).resp)
        /\ loc' = [loc EXCEPT ![c] =
                    IF IsIntLiteral(loc[c].payload.sub)
                    THEN [payload |-> loc[c].payload, error |-> error] ELSE @]
    /\ reads' = [reads EXCEPT ![c] = @ + lookups(loc[c].payload)]
    /\ UNCHANGED <<storeVars, now, JWT_SECRET, op, tok, arg, user, held, cfgVars, poolVars>>

NextOutage ==
    \/ Next
    \/ \E c \in Clients : ResolveIdentityOutage(c)

SpecOutage == Init /\ [][NextOutage]_vars

(***************************************************************************)
(* The connection pool (db/pool.py).  init_pool opens a pool of at most    *)
(* max_size connections; fetch_one borrows one with                        *)
(* `async with pool.connection()` and gives it back when the block is      *)
(* left, by return or by exception.  A call that finds every connection    *)
(* borrowed queues for one, first come first served, and raises            *)
(* PoolTimeout when its wait outlasts the pool's timeout.                  *)
(***************************************************************************)
max_size == 10

Calls == 1..MaxCalls

InitPool ==
    /\ NoRows
    /\ now = 0
    /\ JWT_SECRET = "k1"
    /\ NoRequests
    /\ cfgRoles = <<>>
    /\ guard = NoArgs
    /\ cfgUser = NoUser
    /\ cfgOut = NoResp
    /\ issue_in = NoArgs
    /\ issued = NoCredentials
    /\ verified = NoResp
    /\ pw_in = NoArgs
    /\ pw_out = NoResp
    /\ pool = "None"
    /\ borrowed = {}
    /\ waiting = <<>>
    /\ fetched = NoResp

notPoolVars == <<storeVars, now, JWT_SECRET, reqVars, cfgVars, reads>>

InQueue(k) == \E i \in 1..Len(waiting) : waiting[i] = k

\* lines 8-11
init_pool ==
    /\ pool = "None"
    /\ pool' = "open"
    /\ UNCHANGED <<borrowed, waiting, fetched, notPoolVars>>

\* lines 34-35: the assert, then pool.connection()
FetchOneEnter(k) ==
    /\ k \notin borrowed /\ ~InQueue(k)
    /\ IF pool = "None"
       THEN /\ fetched' = [error |-> "AssertionError"]
            /\ UNCHANGED <<borrowed, waiting>>
       ELSE IF Cardinality(borrowed) < max_size
       THEN /\ borrowed' = borrowed \cup {k}
            /\ UNCHANGED <<waiting, fetched>>
       ELSE /\ waiting' = Append(waiting, k)
            /\ UNCHANGED <<borrowed, fetched>>
    /\ UNCHANGED <<pool, notPoolVars>>

\* what the query gives: a result, or an exception of the driver
QueryResults == {[row |-> TRUE], [error |-> "OperationalError"]}

\* variant that keeps the connection when the query raises
FetchOneLeaks(k) ==
    /\ k \in borrowed
    /\ \E r \in QueryResults :
        /\ fetched' = r
        /\ IF Has(r, "error") THEN UNCHANGED <<borrowed, waiting>>
           ELSE IF waiting # <<>>
           THEN /\ borrowed' = (borrowed \ {k}) \cup {Head(waiting)}
                /\ waiting' = Tail(waiting)
           ELSE /\ borrowed' = borrowed \ {k}
                /\ UNCHANGED waiting
    /\ UNCHANGED <<pool, notPoolVars>>

\* lines 36-38: the query, and the end of the `async with` block, which
\* hands the connection to the first call queued, if there is one
FetchOneReturn(k) ==
    /\ k \in borrowed
    /\ \E r \in QueryResults : fetched' = r
    /\ IF waiting # <<>>
       THEN /\ borrowed' = (borrowed \ {k}) \cup {Head(waiting)}
            /\ waiting' = Tail(waiting)
       ELSE /\ borrowed' = borrowed \ {k}
            /\ UNCHANGED waiting
    /\ UNCHANGED <<pool, notPoolVars>>

\* the wait of a queued call outlasts the timeout of the pool
FetchOneTimeout(k) ==
    /\ InQueue(k)
    /\ waiting' = SelectSeq(waiting, LAMBDA j : j # k)
    /\ fetched' = [error |-> "PoolTimeout"]
    /\ UNCHANGED <<pool, borrowed, notPoolVars>>

NextPool ==
    \/ init_pool
    \/ \E k \in Calls :
        \/ FetchOneEnter(k)
        \/ FetchOneReturn(k)
        \/ FetchOneTimeout(k)

\* every query comes to its end, and the block that holds the connection
\* is left then
SpecPool ==
    /\ InitPool
    /\ [][NextPool]_vars
    /\ \A k \in Calls : WF_vars(FetchOneReturn(k))

(***************************************************************************)
(* Properties of tokens and passwords.                                     *)
(***************************************************************************)
\* a token is under verification, signed with the secret in force
PresentedSigned == verified # NoResp /\ issued.key = JWT_SECRET

\* the token under verification is one login's call issued: a subject with
\* "sub", no expires_delta
PresentedIsLogins ==
    \E c \in Clients :
        /\ issued \in held[c]
        /\ issue_in[c].expires_delta = None
        /\ Has(issue_in[c].subject, "sub")

\* C11: a token signed with the secret in force whose exp is earlier than
\* now is rejected, with 401, and jwt.decode classifies it as expired and
\* not as badly signed, whatever else the token carries.
C11_ExpiredIsExpired ==
    (PresentedSigned /\ issued.payload.exp < now) =>
        /\ ~verified.ok
        /\ verified.resp = HTTPException(401, "Could not validate credentials")
        /\ jwt_decode(issued, JWT_SECRET, now).error = "ExpiredSignatureError"

C11_Witness ==
    /\ PresentedSigned /\ issued.payload.exp < now
    /\ ~verified.ok
    /\ ~Has(issued.payload, "sub")

\* C12: a token signed with a secret other than the one in force is rejected,
\* with 401, as badly signed, expired or not; and the step that replaces the
\* secret leaves no token signed with the replaced secret acceptable.
C12_OtherSecretRejected ==
    [][/\ (verified' # NoResp /\ issued'.key # JWT_SECRET') =>
            /\ ~verified'.ok
            /\ verified'.resp = HTTPException(401, "Could not validate credentials")
            /\ jwt_decode(issued', JWT_SECRET', now').error = "InvalidSignatureError"
       /\ (JWT_SECRET' # JWT_SECRET) =>
            \A c \in Clients : \A t \in held[c] :
                t.key = JWT_SECRET => ~check_token(t, JWT_SECRET', now').ok]_vars

C12_Witness ==
    /\ verified # NoResp /\ ~verified.ok
    /\ issued.payload.exp > now
    /\ \A c \in Clients : held[c] # {} /\ \A t \in held[c] : t.key # JWT_SECRET

\* C13 as stated: exp is iat plus the expires_delta passed, or plus 60
\* minutes when none is passed, and login's token is accepted from iat to
\* iat + 60 inclusive and never later.
C13_AcceptedThroughExpiry ==
    /\ \A c \in Clients : \A t \in held[c] :
        /\ t.payload.iat = issue_in[c].iat
        /\ t.payload.exp = t.payload.iat +
              (IF issue_in[c].expires_delta # None THEN issue_in[c].expires_delta[1]
               ELSE ACCESS_TOKEN_EXPIRE_MINUTES)
    /\ (PresentedSigned /\ PresentedIsLogins) =>
        (verified.ok <=> now <= issued.payload.iat + ACCESS_TOKEN_EXPIRE_MINUTES)

\* C13 as amended: exp is iat plus the expires_delta passed if that is not
\* zero, else plus the configured 60 minutes, and login's token is accepted
\* from iat up to, but not at, iat + 60.
C13_AcceptedBeforeExpiry ==
    /\ \A c \in Clients : \A t \in held[c] :
        /\ t.payload.iat = issue_in[c].iat
        /\ t.payload.exp = t.payload.iat +
              (IF issue_in[c].expires_delta # None /\ issue_in[c].expires_delta[1] # 0
               THEN issue_in[c].expires_delta[1]
               ELSE ACCESS_TOKEN_EXPIRE_MINUTES)
    /\ (PresentedSigned /\ PresentedIsLogins) =>
        /\ issued.payload.exp = issued.payload.iat + ACCESS_TOKEN_EXPIRE_MINUTES
        /\ verified.ok <=> now < issued.payload.iat + ACCESS_TOKEN_EXPIRE_MINUTES

C13_Witness ==
    /\ PresentedSigned /\ PresentedIsLogins
    /\ now = issued.payload.iat + ACCESS_TOKEN_EXPIRE_MINUTES
    /\ ~verified.ok
    /\ \E c \in Clients : issue_in[c] # NoArgs /\ issue_in[c].expires_delta = Some(0)

HoldsNUL(s) == \E i \in 1..Len(s) : s[i] = NUL

True == [ok |-> TRUE, value |-> TRUE]

False == [ok |-> TRUE, value |-> FALSE]

\* C14 as stated: for every password p, hash_password(p) is a digest,
\* verify_password(p, hash_password(p)) is true and
\* verify_password(p + "x", hash_password(p)) is false.
C14_VerifyRoundTrip ==
    /\ Has(pw_out, "digest") => ~Has(pw_out.digest, "error")
    /\ Has(pw_out, "same") => (pw_out.same = True /\ pw_out.longer = False)

\* C14 as amended: hash_password raises exactly for a password with NUL
\* among its first 72 characters; otherwise verify_password(p,
\* hash_password(p)) is true, and verify_password(p + "x", hash_password(p))
\* is false for p of fewer than 72 bytes and true for p of 72 bytes or more.
C14_VerifyRoundTripBelowLimit ==
    /\ Has(pw_out, "digest") =>
        (Has(pw_out.digest, "error") <=> HoldsNUL(Slice(pw_in.p, 72)))
    /\ Has(pw_out, "same") =>
        /\ pw_out.same = True
        /\ Len(encode(pw_in.p)) < BCRYPT_MAX => pw_out.longer = False
        /\ Len(encode(pw_in.p)) >= BCRYPT_MAX => pw_out.longer = True

C14_Witness ==
    /\ Has(pw_out, "longer")
    /\ Len(encode(pw_in.p)) = BCRYPT_MAX /\ Len(pw_in.p) < BCRYPT_MAX
    /\ pw_out.longer = True

\* C15: the digest of a password is that of the first 72 bytes of its
\* encoding, so for p of 72 bytes or more hash_password(p + extra) is, under
\* the same salt, hash_password(p), and p + extra verifies against it.
C15_TruncationLaw ==
    (Has(pw_out, "digest") /\ Len(encode(pw_in.p)) >= BCRYPT_MAX) =>
        /\ ~Has(pw_out.digest, "error")
        /\ pw_out.digest.checksum = <<pw_in.salt, Slice(encode(pw_in.p), BCRYPT_MAX)>>
        /\ pw_out.digest_ext = pw_out.digest
        /\ Has(pw_out, "extended") => pw_out.extended = True

\* C16: verify_password returns False against a stored value that is no
\* digest, and a login whose payload is well-formed is then answered 401.
C16_MalformedDigestIsFalse ==
    /\ Has(pw_out, "stored") => pw_out.stored = False
    /\ (Has(pw_out, "login") /\ login_validate([username |-> "alice", password |-> pw_in.p]) = None)
            => pw_out.login.status = 401

\* a login has been answered
LoginAnswered(c) == pc[c] = "Responded" /\ op[c] = "login"

\* the payload of c passed the checks of lines 83-87
PayloadValid(c) ==
    /\ ~FalsyStr(arg[c], "username") /\ ~Falsy(arg[c], "password")
    /\ Len(encode(arg[c].password)) <= 72

\* the row of the username, as the store holds it
RowsOfLogin(c) ==
    IF FalsyStr(arg[c], "username") THEN {}
    ELSE ByUsername(staff_credentials, arg[c].username)

\* the password of the payload is the one the row's digest was made from
PasswordRight(c, row) ==
    /\ ~Falsy(arg[c], "password")
    /\ ~HoldsNUL(arg[c].password)
    /\ row.password_hash.checksum = <<row.password_hash.salt, encode(arg[c].password)>>

\* C17: login answers with a token exactly when the username exists and the
\* password is the account's, the token naming the row's id and role; an
\* unknown username or a wrong password is answered 401; no answer that is
\* not a success carries a token.
C17_TokenIffCredentialsMatch ==
    \A c \in Clients : LoginAnswered(c) =>
        /\ Has(resp[c], "access_token") <=> \E row \in RowsOfLogin(c) : PasswordRight(c, row)
        /\ Has(resp[c], "access_token") =>
            /\ resp[c].token_type = "bearer" /\ resp[c].status = 200
            /\ \E row \in RowsOfLogin(c) :
                /\ resp[c].access_token.payload.sub = str(row.id)
                /\ resp[c].access_token.payload.role = row.role
        /\ (PayloadValid(c) /\ ~\E row \in RowsOfLogin(c) : PasswordRight(c, row))
            => resp[c].status = 401

\* C18: a login whose payload lacks the username or the password, or whose
\* password is longer than 72 bytes, is answered 400 by the step that
\* reads the payload: the request never gets to the SELECT, no row is
\* fetched, nothing is verified, no token is issued.
C18_BadPayloadIs400 ==
    [][\A c \in Clients :
        /\ (pc[c] = "login" /\ pc'[c] # "login" /\ ~PayloadValid(c))
            => /\ pc'[c] = "Responded"
               /\ resp'[c].status = 400 /\ ~Has(resp'[c], "access_token")
               /\ user'[c] = NoUser
               /\ held' = held
        /\ pc'[c] = "login_fetch" => PayloadValid(c)']_vars

C18_Witness ==
    \E c \in Clients :
        /\ LoginAnswered(c) /\ resp[c].status = 400
        /\ arg[c] = [username |-> "alice", password |-> Rep("E", 37)]
        /\ user[c] = NoUser

\* C19: no row of staff_credentials holds a role outside ALLOWED_ROLES,
\* whatever roles the callers supplied.
C19_StoredRolesAllowed ==
    \A i \in 1..Len(staff_credentials) : staff_credentials[i].role \in ALLOWED_ROLES

\* the INSERT of a signup whose payload names no role
DefaultedInsert(c) ==
    /\ pc[c] = "signup_insert" /\ pc'[c] = "signup_fetch"
    /\ FalsyStr(arg[c], "role")

\* C20: a signup without a role stores admin when and only when the table
\* is empty as its row is inserted, and sales otherwise; rows are never
\* removed, so at most one account is made admin by the default, however
\* the requests interleave.
C20_OneDefaultAdmin ==
    [][\A c \in Clients : DefaultedInsert(c) =>
        /\ staff_credentials'[Len(staff_credentials')].role = "admin"
            <=> Len(staff_credentials) = 0
        /\ staff_credentials'[Len(staff_credentials')].role \in {"admin", "sales"}]_vars

(***************************************************************************)
(* Properties of the store under concurrent calls.                         *)
(***************************************************************************)
\* C21: no two rows of staff_credentials carry the same username, however
\* the calls that write usernames interleave.
C21_UsernamesUnique ==
    \A i, j \in 1..Len(staff_credentials) :
        staff_credentials[i].username = staff_credentials[j].username => i = j

\* C22: no step removes a row of staff_credentials: the table never gets
\* shorter, row i stays the credential of the same member of staff, and
\* the id a handler stamped on what it wrote still names a row.
C22_NeverDeleted ==
    [][/\ Len(staff_credentials') >= Len(staff_credentials)
       /\ \A i \in 1..Len(staff_credentials) :
            staff_credentials'[i].staff_id = staff_credentials[i].staff_id
       /\ \A c \in Clients : Has(resp'[c], "created_by") =>
            ById(staff_credentials', resp'[c].created_by) # {}]_vars

\* delete_staff has completed on the account whose id another request has
\* stamped as created_by
C22_Witness ==
    \E c, d \in Clients :
        /\ pc[c] = "Responded" /\ op[c] = "delete_staff" /\ resp[c].status = 200
        /\ pc[d] = "Responded" /\ Has(resp[d], "created_by")
        /\ resp[d].created_by = arg[c].cred_id
        /\ \E row \in ById(staff_credentials, arg[c].cred_id) : row.status = "inactive"

\* a step of get_current_user or of _dep for the request of c
GateStep(c) ==
    /\ pc[c] \in {"Unauthenticated", "TokenValidated", "IdentityResolved"}
    /\ pc'[c] # pc[c]

\* the step leaves the store, the configuration of the process, the tokens
\* handed out and the requests of the other clients as they were
LeavesSharedState(c) ==
    /\ staff_credentials' = staff_credentials /\ staff_users' = staff_users
    /\ JWT_SECRET' = JWT_SECRET
    /\ held' = held
    /\ poolVars' = poolVars
    /\ \A d \in Clients \ {c} :
        /\ pc'[d] = pc[d] /\ user'[d] = user[d] /\ resp'[d] = resp[d]
        /\ loc'[d] = loc[d] /\ reads'[d] = reads[d]

\* the step ends the checks: the request is answered or handed to the handler
GateEnds(c) == GateStep(c) /\ pc'[c] \in {"Responded", "RoleChecked"}

\* C23 as stated: the checks change nothing shared, and every request they
\* end, accepted or rejected, has made exactly one lookup.
C23_OneReadEveryRequest ==
    [][\A c \in Clients :
        /\ GateStep(c) => LeavesSharedState(c)
        /\ GateEnds(c) => reads'[c] = 1]_vars

\* C23: the checks change nothing shared and make at most one lookup per
\* request: one when the token has been decoded and its subject is a
\* decimal number, none when the request is rejected before that.
C23_AtMostOneRead ==
    [][\A c \in Clients :
        /\ GateStep(c) => LeavesSharedState(c) /\ reads'[c] <= 1
        /\ GateEnds(c) =>
            reads'[c] = IF pc[c] = "Unauthenticated" THEN 0
                        ELSE IF IsIntLiteral(loc[c].payload.sub) THEN 1 ELSE 0]_vars

\* one request rejected without a lookup, another admitted after one
C23_Witness ==
    \E c, d \in Clients :
        /\ pc[c] = "Responded" /\ op[c] = "protected" /\ tok[c] = NoCredentials
        /\ resp[c].status = 401 /\ reads[c] = 0
        /\ pc[d] = "RoleChecked" /\ reads[d] = 1

(***************************************************************************)
(* Properties of the connection pool.                                      *)
(***************************************************************************)
PoolBounded ==
    /\ Cardinality(borrowed) <= max_size
    /\ waiting # <<>> => Cardinality(borrowed) = max_size

\* the call k leaves the queue in this step
LeavesQueue(k) == InQueue(k) /\ ~InQueue(k)'

\* C24 as stated: never more than max_size connections are borrowed, every
\* borrowed connection is returned, and every call that waits for a
\* connection gets one: its wait ends, and ends with a connection.
C24_WaitingGetsConnection ==
    /\ []PoolBounded
    /\ \A k \in Calls : []<>(k \notin borrowed)
    /\ \A k \in Calls : []<>(~InQueue(k))
    /\ [][\A k \in Calls : LeavesQueue(k) => k \in borrowed']_vars

\* C24: never more than max_size connections are borrowed, every borrowed
\* connection is returned, whatever the query gave, and the wait of every
\* call queued for a connection ends: with a connection, or with
\* PoolTimeout.
C24_BorrowedIsReturned ==
    /\ []PoolBounded
    /\ \A k \in Calls : []<>(k \notin borrowed)
    /\ \A k \in Calls : []<>(~InQueue(k))
    /\ [][\A k \in Calls : LeavesQueue(k) =>
            (k \in borrowed' \/ fetched' = [error |-> "PoolTimeout"])]_vars

\* every connection borrowed, a call queued, after a query that raised
C24_Witness ==
    /\ Cardinality(borrowed) = max_size
    /\ waiting # <<>>
    /\ fetched = [error |-> "OperationalError"]

(***************************************************************************)
(* Properties of requests when the store fails.                            *)
(***************************************************************************)
\* the lookup of the request of c has raised
LookupRaised(c) == Has(loc[c], "error")

\* C25: when the lookup of get_current_user raises, the request is
\* answered 500 in that very step, after the one attempt: it is not looked
\* up again, it is answered neither 401 nor 403, and it never gets to the
\* role check or to its handler.
C25_OutageIs500 ==
    /\ \A c \in Clients : LookupRaised(c) =>
        /\ pc[c] = "Responded"
        /\ resp[c] = InternalServerError
        /\ user[c] = NoUser /\ arg[c] = NoArgs
        /\ reads[c] = 1
    /\ \A c \in Clients :
        (pc[c] \in {"IdentityResolved", "RoleChecked"} \cup HandlerPcs) => ~LookupRaised(c)

\* the store fails a request whose token names an active account
C25_Witness ==
    \E c \in Clients :
        /\ LookupRaised(c) /\ resp[c].status = 500
        /\ tok[c].kind = "jws" /\ tok[c].key = JWT_SECRET
        /\ \E row \in ById(staff_credentials, int(tok[c].payload.sub)) : row.status = "active"

(***************************************************************************)
(* Properties of login and of tokens over the life of an account.          *)
(***************************************************************************)
\* the step in which login reads the row and answers
LoginAnswers(c) == pc[c] = "login_fetch" /\ pc'[c] = "Responded"

\* C26: login issues a token only for a row whose status is active as the
\* token is issued, and answers a right password for a row that is not
\* active with 403 and without a token.
C26_TokenOnlyForActive ==
    [][\A c \in Clients : LoginAnswers(c) =>
        /\ Has(resp'[c], "access_token") =>
            \E row \in ByUsername(staff_credentials, arg[c].username) :
                /\ row.status = "active"
                /\ resp'[c].access_token.payload.sub = str(row.id)
        /\ (\A row \in ByUsername(staff_credentials, arg[c].username) :
                row.status # "active") => ~Has(resp'[c], "access_token")
        /\ (\E row \in ByUsername(staff_credentials, arg[c].username) :
                PasswordRight(c, row))
            /\ (\A row \in ByUsername(staff_credentials, arg[c].username) :
                row.status # "active")
            => resp'[c].status = 403]_vars

\* the right password of a deactivated account has been answered 403
C26_Witness ==
    \E c \in Clients :
        /\ LoginAnswered(c) /\ resp[c].status = 403 /\ ~Has(resp[c], "access_token")
        /\ \E row \in ByUsername(staff_credentials, arg[c].username) :
            row.status = "inactive" /\ PasswordRight(c, row)

\* C27: two logins with the same password, one for a username of no row
\* and one for a username of a row that has another password, are answered
\* alike, whatever the status of that row.
C27_UnknownLikeWrongPassword ==
    \A c, d \in Clients :
        (/\ LoginAnswered(c) /\ LoginAnswered(d)
         /\ PayloadValid(c) /\ PayloadValid(d)
         /\ arg[c].password = arg[d].password
         /\ RowsOfLogin(c) = {}
         /\ RowsOfLogin(d) # {}
         /\ \A row \in RowsOfLogin(d) : ~PasswordRight(d, row))
        => resp[c] = resp[d]

\* the token c presents is the one login gave it
PresentsLoginToken(c) == tok[c] \in held[c]

\* the row the token of c names is active
AccountActive(c) ==
    \E row \in ById(staff_credentials, int(tok[c].payload.sub)) : row.status = "active"

\* C28: a token that login issued is accepted by get_current_user exactly
\* when, as each check is made, it is signed with the secret in force and
\* not expired, and the row it names is active: also when the row has been
\* inactive in between.
C28_AcceptedIffActiveNow ==
    [][\A c \in Clients : PresentsLoginToken(c) =>
        /\ (pc[c] = "Unauthenticated" /\ pc'[c] # pc[c]) =>
            (pc'[c] = "TokenValidated"
                <=> (tok[c].key = JWT_SECRET /\ tok[c].payload.exp > now))
        /\ (pc[c] = "TokenValidated" /\ pc'[c] # pc[c]) =>
            (pc'[c] = "IdentityResolved" <=> AccountActive(c))
        /\ (pc'[c] # "IdentityResolved" /\ pc[c] \in {"Unauthenticated", "TokenValidated"}
                /\ pc'[c] \notin {"Unauthenticated", "TokenValidated"})
            => resp'[c].status = 401]_vars

\* the token issued to the account before it was deactivated is accepted
\* again
C28_Witness ==
    \E c \in Clients :
        /\ pc[c] = "IdentityResolved"
        /\ tok[c] = LoginToken(2, "sales", 0)
        /\ user[c].id = 2 /\ user[c].status = "active"

(***************************************************************************)
(* Properties of the two tables of the staff.                              *)
(***************************************************************************)
\* no handler of a staff operation is under way: every call has completed
Quiescent == \A c \in Clients : pc[c] \notin HandlerPcs

\* the credential i is linked to a row of staff_users, and no other is
\* linked to that row
LinkedAlone(i) ==
    /\ staff_credentials[i].staff_id \in 1..Len(staff_users)
    /\ \A j \in 1..Len(staff_credentials) :
        staff_credentials[j].staff_id = staff_credentials[i].staff_id => j = i

\* C29: once the calls of create_staff, update_staff and delete_staff have
\* completed, role and status of a staff_users row equal role and status of
\* the credential linked to it, however the calls interleaved.
C29_UsersMatchCredentials ==
    Quiescent =>
        \A i \in 1..Len(staff_credentials) : LinkedAlone(i) =>
            /\ staff_users[staff_credentials[i].staff_id].role = staff_credentials[i].role
            /\ staff_users[staff_credentials[i].staff_id].status = staff_credentials[i].status

\* C30: once the calls of create_staff have completed, no two credentials
\* are linked to the same staff_users row and every staff_users row has
\* its credential, also when the calls gave the same staff_name.
C30_OneCredentialPerStaffRow ==
    (Quiescent /\ C21_UsernamesUnique) =>
        /\ \A i, j \in 1..Len(staff_credentials) :
            staff_credentials[i].staff_id = staff_credentials[j].staff_id => i = j
        /\ \A k \in 1..Len(staff_users) :
            \E i \in 1..Len(staff_credentials) : staff_credentials[i].staff_id = k

====
